---- MODULE Spec2Model ----
(***************************************************************************)
(* Model of the arq-research knowledge-graph schema code:                  *)
(*   - the entity compiler       (src/kg/model/compiler/compile.py, dsl.py)*)
(*   - the Taxon parent binding  (src/kg/model/core/taxon.py)              *)
(*   - the rank derivation       (src/kg/model/derived/taxonomy.py)        *)
(* The semantic-model runtime (relationalai) is external: a Model object   *)
(* is the name -> concept map its attributes form, rai.define appends a    *)
(* statement, and a statement's meaning is the relation it denotes over    *)
(* the source rows.                                                        *)
(***************************************************************************)
EXTENDS Naturals, Sequences, FiniteSets, TLC

None == "None"

\* ------------------------------------------------------------------ bounds
\* compile_entity calls made against one Model.
MaxCompiles == 2
\* Rows of the source table handed to compile_entity.
MaxRows == 2

\* ------------------------------------------------------------- dsl.py
\* _Field (label and the unused identify_by marker are left out: compile.py
\* passes the label through to Property/Relationship and reads nothing of it).
Field(kind, column, functional, value_concept, value_extends, create_value_concept, target, target_key) ==
    [kind |-> kind, column |-> column, functional |-> functional,
     value_concept |-> value_concept, value_extends |-> value_extends,
     create_value_concept |-> create_value_concept,
     target |-> target, target_key |-> target_key]

Key(column, id_concept, id_extends) ==
    Field("key", column, TRUE, id_concept, id_extends, TRUE, None, "id")

Prop(column, value_concept, value_extends, create_value_concept, functional) ==
    Field("prop", column, functional, value_concept, value_extends, create_value_concept, None, "id")

Ref(column, target, target_key, functional) ==
    Field("ref", column, functional, None, None, TRUE, target, target_key)

Rel(column, value_concept, value_extends, create_value_concept) ==
    Prop(column, value_concept, value_extends, create_value_concept, FALSE)

RelRef(column, target, target_key) ==
    Ref(column, target, target_key, FALSE)

\* An EntitySpec class: __entity__, __fields__ (a dict, in declaration order:
\* a sequence of attr/field items) and __identify_by__ (absent, or a dict of
\* attr -> value-concept name, kept as a sequence of pairs).
EntitySpec(entity, fields, identify_by) ==
    [entity |-> entity, fields |-> fields, identify_by |-> identify_by]

Item(attr, field) == [attr |-> attr, field |-> field]

NoIdentifyBy == [declared |-> FALSE, items |-> <<>>]
IdentifyBy(items) == [declared |-> TRUE, items |-> items]

\* ------------------------------------------------- the specs compiled
ValueConceptNames == {"V1", "V2"}
EntityNames == {"E1", "E2"}
Names == ValueConceptNames \cup EntityNames

GoodKey == Key("c1", "V1", "Integer")
GoodProp == Prop("c2", "V2", "String", TRUE, TRUE)

\* Fields tried after a well-formed identity: well-formed and malformed ones.
ProbeFields ==
    { Prop("c2", "V2", "String", TRUE, TRUE),
      Prop("c2", "V1", "String", TRUE, TRUE),
      Prop("c2", "V2", None, FALSE, TRUE),
      Prop("c2", "V2", None, TRUE, TRUE),
      Rel("c2", "V2", "String", TRUE),
      Field("prop", None, TRUE, "V2", "String", TRUE, None, "id"),
      Field("prop", "c2", TRUE, None, None, TRUE, None, "id"),
      Ref("c2", "E1", "id", TRUE),
      RelRef("c2", "E2", "id"),
      Field("ref", None, TRUE, None, None, TRUE, "E1", "id"),
      Field("ref", "c2", TRUE, None, None, TRUE, None, "id"),
      Field("edge", "c2", TRUE, "V2", "String", TRUE, None, "id") }

\* Single-Key specs: id, one bound Prop, one probe field.
KeySpecs ==
    { EntitySpec("E1", <<Item("id", GoodKey), Item("f1", Prop("c1", "V2", "String", TRUE, TRUE)), Item("f2", p)>>,
                 NoIdentifyBy) : p \in ProbeFields }
    \cup
    { EntitySpec("E2", <<Item("id", GoodKey), Item("f2", p)>>, NoIdentifyBy) :
        p \in { GoodProp, Ref("c2", "E1", "id", TRUE), Prop("c2", "V2", None, FALSE, TRUE) } }
    \cup
    { EntitySpec("E1", <<Item("key", GoodKey), Item("id", GoodProp)>>, NoIdentifyBy) }

\* Specs whose identity declaration is malformed.
BadIdentitySpecs ==
    { EntitySpec("E1", <<Item("f1", GoodProp)>>, NoIdentifyBy),
      EntitySpec("E1", <<Item("f1", GoodProp)>>, IdentifyBy(<<>>)),
      EntitySpec("E1", <<Item("id", GoodKey), Item("id2", Key("c2", "V2", "Integer"))>>, NoIdentifyBy),
      EntitySpec("E1", <<Item("id", GoodKey), Item("f1", GoodProp)>>, IdentifyBy(<<>>)),
      EntitySpec("E1", <<Item("id", GoodKey), Item("f1", GoodProp)>>, IdentifyBy(<< <<"f1", "V2">> >>)),
      EntitySpec("E1", <<Item("id", Field("key", None, TRUE, "V1", "Integer", TRUE, None, "id"))>>, NoIdentifyBy),
      EntitySpec("E1", <<Item("id", Field("key", "c1", TRUE, None, "Integer", TRUE, None, "id"))>>, NoIdentifyBy),
      EntitySpec("E1", <<Item("id", Key("c1", "V2", None))>>, NoIdentifyBy) }

\* Composite-identity specs (the shape of TraitSpec), well-formed and not.
NameProp == Prop("c1", "V1", "String", TRUE, TRUE)
ValueProp == Prop("c2", "V2", "String", TRUE, TRUE)

CompositeSpecs ==
    { EntitySpec("E2", <<Item("name", NameProp), Item("value", ValueProp)>>,
                 IdentifyBy(<< <<"name", "V1">>, <<"value", "V2">> >>)),
      EntitySpec("E2", <<Item("name", NameProp), Item("value", ValueProp)>>,
                 IdentifyBy(<< <<"name", "V1">> >>)),
      EntitySpec("E1", <<Item("name", NameProp), Item("value", ValueProp), Item("f2", Ref("c2", "E2", "id", TRUE))>>,
                 IdentifyBy(<< <<"name", "V1">>, <<"value", "V2">> >>)),
      EntitySpec("E2", <<Item("name", NameProp), Item("value", Field("prop", None, TRUE, "V2", "String", TRUE, None, "id"))>>,
                 IdentifyBy(<< <<"name", "V1">> >>)),
      EntitySpec("E2", <<Item("name", NameProp), Item("value", ValueProp)>>,
                 IdentifyBy(<< <<"name", "V1">>, <<"other", "V2">> >>)),
      EntitySpec("E2", <<Item("name", NameProp), Item("value", Ref("c2", "E1", "id", TRUE))>>,
                 IdentifyBy(<< <<"name", "V1">>, <<"value", "V2">> >>)),
      EntitySpec("E2", <<Item("name", NameProp), Item("value", ValueProp)>>,
                 IdentifyBy(<< <<"name", "V1">>, <<"value", "V1">> >>)),
      EntitySpec("E2", <<Item("name", NameProp), Item("value", Field("prop", None, TRUE, "V2", "String", TRUE, None, "id"))>>,
                 IdentifyBy(<< <<"name", "V1">>, <<"value", "V2">> >>)),
      EntitySpec("E2", <<Item("name", NameProp), Item("value", Prop("c2", None, "String", TRUE, TRUE))>>,
                 IdentifyBy(<< <<"name", "V1">>, <<"value", "V2">> >>)),
      EntitySpec("E2", <<Item("name", NameProp), Item("value", Prop("c2", "V2", None, FALSE, TRUE))>>,
                 IdentifyBy(<< <<"name", "V1">>, <<"value", "V2">> >>)) }

\* Specs with a Ref to their own entity (a parent-style link), by the default
\* target key and by another attribute of the target.
RefSpecs ==
    { EntitySpec("E1", <<Item("id", GoodKey), Item("f1", GoodProp), Item("f2", Ref(col, "E1", tk, TRUE))>>,
                 NoIdentifyBy) : col \in {"c1", "c2"}, tk \in {"id", "f1"} }

Specs == KeySpecs \cup BadIdentitySpecs \cup CompositeSpecs \cup RefSpecs


NoSpec == EntitySpec(None, <<>>, NoIdentifyBy)

\* ------------------------------------------------------------ the state
VARIABLES
    concepts,        \* the Model's attributes: concept name -> concept (or absent)
    created,         \* concept name -> number of m.Concept(name, ...) calls made
    props,           \* Property/Relationship objects set on entity concepts
    nprops,          \* Property/Relationship objects created so far
    stmts,           \* the statements emitted through rai.define, in order
    pc,              \* where compile_entity stands: idle, define, bind_new, bind
    cur,             \* the spec being compiled (the last one compiled when idle)
    idx,             \* position of the running loop in fields
    entity_concept,  \* compile_entity's local entity_concept
    identity_cols,   \* compile_entity's local identity_cols
    err,             \* the exception that ended the last call (type none: no exception)
    ncalls,          \* compile_entity calls made
    budget,          \* compile_entity calls the run makes
    rows             \* the source table's rows

compiler_vars == <<concepts, created, props, nprops, stmts, pc, cur, idx,
                   entity_concept, identity_cols, err, ncalls, budget, rows>>

\* The Taxon graph and its derived relations (modelled further down).
VARIABLES
    taxon_rows,   \* the TAXON table: TAXONID -> TAXONRANK, PARENTNAMEUSAGEID (0: null)
    parent,       \* Taxon.parent as bound by define_taxon: (child, parent) pairs
    rank_view,    \* rank -> the instances of its view concept (TaxonSpecies, ...)
    strict,       \* derived rank -> Taxon.<rank> as define_taxonomy derives it
    ancestor,     \* Taxon.ancestor of the ancestor-closure mode
    anc_rank,     \* derived rank -> Taxon.<rank> of the ancestor-closure mode
    max_hops,     \* the maxHops the closure was unrolled to
    tpc,          \* source, bound, species, strict, ancestor: what has been defined
    canonical,    \* the TAXON table: TAXONID -> CANONICALNAME
    plant_names,  \* the scientific names of the PLANTS table
    species,      \* the Species instances (canonical names)
    species_taxon,  \* Species.taxon: (species, taxon) pairs
    species_rank  \* derived rank -> Species.<rank>: (species, taxon) pairs

taxonomy_vars == <<taxon_rows, parent, rank_view, strict, ancestor, anc_rank, max_hops, tpc,
                   canonical, plant_names, species, species_taxon, species_rank>>

\* ModelPlan.apply (plan.py).
VARIABLES
    plan,      \* ModelPlan.steps
    step,      \* how far the for loop of ModelPlan.apply has come: the next turn
    applied,   \* the declared positions of the steps applied so far, in order
    seen       \* the Model's concepts as each applied step found them

plan_vars == <<plan, step, applied, seen>>

\* Two executions of _ensure_value_concept against one Model, each between
\* its hasattr test and its setattr.
VARIABLES
    rpc,         \* execution -> start, checked, done (none: not running)
    rsaw,        \* execution -> its hasattr test found the name absent
    rcall,       \* execution -> the name and extends it was called with
    serialized   \* the callers hold a lock around each execution

race_vars == <<rpc, rsaw, rcall, serialized>>

\* ARQ_PLAN (and its reorderings) applied to a Model, at the level of the
\* attributes the steps set on and read off the Model.
VARIABLES
    arq_plan,    \* ModelPlan.steps
    arq_step,    \* the next turn of the for loop of ModelPlan.apply
    arq_model,   \* the names set on the Model so far
    arq_made,    \* for each step applied, the names it added to the Model
    arq_err      \* the exception that ended apply (type none: none)

arq_vars == <<arq_plan, arq_step, arq_model, arq_made, arq_err>>

Absent == [kind |-> "absent", extends |-> None, identify_by |-> <<>>, gen |-> 0]
NoHandle == [name |-> None, gen |-> 0]
NoErr == [type |-> "none", phase |-> 0, attr |-> None]
Raise(type, phase, attr) == [type |-> type, phase |-> phase, attr |-> attr]

\* A Model as the helpers see it.
Ctx(cs, cr) == [concepts |-> cs, created |-> cr]

hasattr(ctx, name) == ctx.concepts[name].kind # "absent"

\* The object bound to a name: the name, and which creation of it this is.
Handle(ctx, name) == [name |-> name, gen |-> ctx.concepts[name].gen]

\* c = m.Concept(name, ...); setattr(m_any, name, c)
NewConcept(ctx, name, kind, extends, identify_by) ==
    Ctx([ctx.concepts EXCEPT ![name] =
            [kind |-> kind, extends |-> extends, identify_by |-> identify_by,
             gen |-> ctx.created[name] + 1]],
        [ctx.created EXCEPT ![name] = @ + 1])

Returned(ctx, name) == [ctx |-> ctx, handle |-> Handle(ctx, name), raised |-> "none"]
Raised(ctx, type) == [ctx |-> ctx, handle |-> NoHandle, raised |-> type]

\* _ensure_value_concept without the hasattr test: creates on every call.
ensure_value_concept_always_creates(ctx, name, extends, create) ==
    IF ~create
    THEN IF ctx.concepts[name].kind # "absent" THEN Returned(ctx, name) ELSE Raised(ctx, "AttributeError")
    ELSE IF extends = None THEN Raised(ctx, "ValueError")
    ELSE Returned(NewConcept(ctx, name, "value", extends, <<>>), name)

\* _ensure_value_concept falling through to the creation when create is
\* false and the name is absent.
ensure_value_concept_lookup_creates(ctx, name, extends, create) ==
    IF hasattr(ctx, name) THEN Returned(ctx, name)
    ELSE IF extends = None /\ create THEN Raised(ctx, "ValueError")
    ELSE Returned(NewConcept(ctx, name, "value", extends, <<>>), name)

\* _ensure_value_concept comparing the base type of the concept it finds
\* with the one declared, and raising when they differ.
ensure_value_concept_checks_base(ctx, name, extends, create) ==
    IF ~create
    THEN IF hasattr(ctx, name) THEN Returned(ctx, name) ELSE Raised(ctx, "AttributeError")
    ELSE IF hasattr(ctx, name)
    THEN IF extends # None /\ ctx.concepts[name].extends # extends
         THEN Raised(ctx, "ValueError") ELSE Returned(ctx, name)
    ELSE IF extends = None THEN Raised(ctx, "ValueError")
    ELSE Returned(NewConcept(ctx, name, "value", extends, <<>>), name)

\* compile.py: _ensure_value_concept
ensure_value_concept(ctx, name, extends, create) ==
    IF ~create
    THEN IF hasattr(ctx, name) THEN Returned(ctx, name) ELSE Raised(ctx, "AttributeError")
    ELSE IF hasattr(ctx, name) THEN Returned(ctx, name)
    ELSE IF extends = None THEN Raised(ctx, "ValueError")
    ELSE Returned(NewConcept(ctx, name, "value", extends, <<>>), name)

\* _ensure_entity_concept without the hasattr test.
ensure_entity_concept_always_creates(ctx, entity, id_concept) ==
    Returned(NewConcept(ctx, entity, "entity", None, << <<"id", id_concept>> >>), entity)

\* compile.py: _ensure_entity_concept
ensure_entity_concept(ctx, entity, id_concept) ==
    IF hasattr(ctx, entity) THEN Returned(ctx, entity)
    ELSE Returned(NewConcept(ctx, entity, "entity", None, << <<"id", id_concept>> >>), entity)

\* compile.py: _ensure_entity_concept_identify_by
ensure_entity_concept_identify_by(ctx, entity, identify_by) ==
    IF hasattr(ctx, entity) THEN Returned(ctx, entity)
    ELSE Returned(NewConcept(ctx, entity, "entity", None, identify_by), entity)

\* fields.get(attr): the item declared under attr, as a set (empty: None).
fields_get(spec, attr) == { spec.fields[i] : i \in { j \in 1..Len(spec.fields) : spec.fields[j].attr = attr } }

key_items(spec) == SelectSeq(spec.fields, LAMBDA it : it.field.kind = "key")

composite_identity_attrs(spec) ==
    { spec.identify_by.items[i][1] : i \in 1..Len(spec.identify_by.items) }

\* What phase 1 hands on: the Model, entity_concept, identity_cols, or the
\* exception raised.
Identity(ctx, ec, cols, e) == [ctx |-> ctx, entity_concept |-> ec, identity_cols |-> cols, err |-> e]

\* The single-Key branch with the value concept ensured before the Key's
\* column is looked at.
single_key_identity_creates_first(ctx, spec) ==
    LET key_attr == key_items(spec)[1].attr
        key_field == key_items(spec)[1].field
    IN  IF key_field.value_concept = None
        THEN Identity(ctx, NoHandle, <<>>, Raise("ValueError", 1, key_attr))
        ELSE LET id == ensure_value_concept(ctx, key_field.value_concept, key_field.value_extends, TRUE)
             IN  IF id.raised # "none"
                 THEN Identity(id.ctx, NoHandle, <<>>, Raise(id.raised, 1, key_attr))
                 ELSE IF key_field.column = None
                 THEN Identity(id.ctx, NoHandle, <<>>, Raise("ValueError", 1, key_attr))
                 ELSE LET ent == ensure_entity_concept(id.ctx, spec.entity, id.handle.name)
                      IN  Identity(ent.ctx, ent.handle, << <<"id", key_field.column>> >>, NoErr)

\* compile.py lines 74-88: the single-Key branch.
single_key_identity(ctx, spec) ==
    LET key_attr == key_items(spec)[1].attr
        key_field == key_items(spec)[1].field
    IN  IF key_field.column = None \/ key_field.value_concept = None
        THEN Identity(ctx, NoHandle, <<>>, Raise("ValueError", 1, key_attr))
        ELSE LET id == ensure_value_concept(ctx, key_field.value_concept, key_field.value_extends, TRUE)
             IN  IF id.raised # "none"
                 THEN Identity(id.ctx, NoHandle, <<>>, Raise(id.raised, 1, key_attr))
                 ELSE LET ent == ensure_entity_concept(id.ctx, spec.entity, id.handle.name)
                      IN  Identity(ent.ctx, ent.handle, << <<"id", key_field.column>> >>, NoErr)

\* The loop over __identify_by__ without the test of line 101: the concept
\* name of the entry is taken whatever the Prop declares.
RECURSIVE composite_loop_any_concept(_, _, _, _, _)
composite_loop_any_concept(ctx, spec, i, identify_by_concepts, cols) ==
    IF i > Len(spec.identify_by.items)
    THEN LET ent == ensure_entity_concept_identify_by(ctx, spec.entity, identify_by_concepts)
         IN  Identity(ent.ctx, ent.handle, cols, NoErr)
    ELSE LET attr == spec.identify_by.items[i][1]
             value_concept_name == spec.identify_by.items[i][2]
             found == fields_get(spec, attr)
         IN  IF found = {}
             THEN Identity(ctx, NoHandle, cols, Raise("ValueError", 1, attr))
             ELSE LET field == (CHOOSE it \in found : TRUE).field
                  IN  IF field.kind # "prop"
                      THEN Identity(ctx, NoHandle, cols, Raise("ValueError", 1, attr))
                      ELSE IF field.column = None
                      THEN Identity(ctx, NoHandle, cols, Raise("ValueError", 1, attr))
                      ELSE LET c == ensure_value_concept(ctx, value_concept_name, field.value_extends,
                                                         field.create_value_concept)
                           IN  IF c.raised # "none"
                               THEN Identity(c.ctx, NoHandle, cols, Raise(c.raised, 1, attr))
                               ELSE composite_loop_any_concept(c.ctx, spec, i + 1,
                                                   Append(identify_by_concepts, <<attr, c.handle.name>>),
                                                   Append(cols, <<attr, field.column>>))

\* compile.py lines 92-112: the loop over __identify_by__, from entry i on.
RECURSIVE composite_loop(_, _, _, _, _)
composite_loop(ctx, spec, i, identify_by_concepts, cols) ==
    IF i > Len(spec.identify_by.items)
    THEN LET ent == ensure_entity_concept_identify_by(ctx, spec.entity, identify_by_concepts)
         IN  Identity(ent.ctx, ent.handle, cols, NoErr)
    ELSE LET attr == spec.identify_by.items[i][1]
             value_concept_name == spec.identify_by.items[i][2]
             found == fields_get(spec, attr)
         IN  IF found = {}
             THEN Identity(ctx, NoHandle, cols, Raise("ValueError", 1, attr))
             ELSE LET field == (CHOOSE it \in found : TRUE).field
                  IN  IF field.kind # "prop"
                      THEN Identity(ctx, NoHandle, cols, Raise("ValueError", 1, attr))
                      ELSE IF field.column = None
                      THEN Identity(ctx, NoHandle, cols, Raise("ValueError", 1, attr))
                      ELSE IF field.value_concept # None /\ field.value_concept # value_concept_name
                      THEN Identity(ctx, NoHandle, cols, Raise("ValueError", 1, attr))
                      ELSE LET c == ensure_value_concept(ctx, value_concept_name, field.value_extends,
                                                         field.create_value_concept)
                           IN  IF c.raised # "none"
                               THEN Identity(c.ctx, NoHandle, cols, Raise(c.raised, 1, attr))
                               ELSE composite_loop(c.ctx, spec, i + 1,
                                                   Append(identify_by_concepts, <<attr, c.handle.name>>),
                                                   Append(cols, <<attr, field.column>>))

\* Phase 1 without the test of line 69: a Key wins over __identify_by__.
resolve_identity_key_wins(ctx, spec) ==
    IF Len(key_items(spec)) = 1
    THEN single_key_identity(ctx, spec)
    ELSE IF Len(key_items(spec)) = 0 /\ spec.identify_by.declared /\ Len(spec.identify_by.items) > 0
    THEN composite_loop(ctx, spec, 1, <<>>, <<>>)
    ELSE Identity(ctx, NoHandle, <<>>, Raise("ValueError", 1, None))

\* compile.py lines 64-118: phase 1, identify the entity identity.
resolve_identity(ctx, spec) ==
    IF spec.identify_by.declared /\ Len(key_items(spec)) > 0
    THEN Identity(ctx, NoHandle, <<>>, Raise("ValueError", 1, None))
    ELSE IF Len(key_items(spec)) = 1
    THEN single_key_identity(ctx, spec)
    ELSE IF Len(key_items(spec)) = 0 /\ spec.identify_by.declared /\ Len(spec.identify_by.items) > 0
    THEN composite_loop(ctx, spec, 1, <<>>, <<>>)
    ELSE Identity(ctx, NoHandle, <<>>, Raise("ValueError", 1, None))


\* ------------------------------------------------ phase 2: members
\* setattr(entity_concept, attr, rel): the attribute now names the new object.
setattr(ps, owner, attr, functional, hid) ==
    { q \in ps : ~(q.owner = owner /\ q.attr = attr) }
    \cup { [owner |-> owner, attr |-> attr, functional |-> functional, hid |-> hid] }

Member(ctx, ps, np, e) == [ctx |-> ctx, props |-> ps, nprops |-> np, err |-> e]

\* The member loop letting an unknown field kind through (no raise at line 133).
define_member_skips_unknown(ctx, ps, np, spec, ec, i) ==
    LET attr == spec.fields[i].attr
        field == spec.fields[i].field
    IN  IF field.kind = "key" THEN Member(ctx, ps, np, NoErr)
        ELSE IF attr \in composite_identity_attrs(spec) THEN Member(ctx, ps, np, NoErr)
        ELSE IF field.kind \notin {"prop", "ref"} THEN Member(ctx, ps, np, NoErr)
        ELSE LET ps2 == setattr(ps, ec, attr, field.functional, np + 1)
             IN  IF field.kind # "prop" THEN Member(ctx, ps2, np + 1, NoErr)
                 ELSE IF field.value_concept = None
                 THEN Member(ctx, ps2, np + 1, Raise("ValueError", 2, attr))
                 ELSE LET c == ensure_value_concept(ctx, field.value_concept, field.value_extends,
                                                    field.create_value_concept)
                      IN  Member(c.ctx, ps2, np + 1,
                                 IF c.raised = "none" THEN NoErr ELSE Raise(c.raised, 2, attr))

\* compile.py lines 121-143: one turn of the loop, for fields item i.
define_member(ctx, ps, np, spec, ec, i) ==
    LET attr == spec.fields[i].attr
        field == spec.fields[i].field
    IN  IF field.kind = "key" THEN Member(ctx, ps, np, NoErr)
        ELSE IF attr \in composite_identity_attrs(spec) THEN Member(ctx, ps, np, NoErr)
        ELSE IF field.kind \notin {"prop", "ref"}
        THEN Member(ctx, ps, np, Raise("ValueError", 2, attr))
        ELSE LET ps2 == setattr(ps, ec, attr, field.functional, np + 1)
             IN  IF field.kind # "prop" THEN Member(ctx, ps2, np + 1, NoErr)
                 ELSE IF field.value_concept = None
                 THEN Member(ctx, ps2, np + 1, Raise("ValueError", 2, attr))
                 ELSE LET c == ensure_value_concept(ctx, field.value_concept, field.value_extends,
                                                    field.create_value_concept)
                      IN  Member(c.ctx, ps2, np + 1,
                                 IF c.raised = "none" THEN NoErr ELSE Raise(c.raised, 2, attr))

\* ------------------------------------------------ phase 3: bindings
Stmt(call, kind, ec, attr, column, target, target_key, cols) ==
    [call |-> call, kind |-> kind, entity |-> ec, attr |-> attr, column |-> column,
     target |-> target, target_key |-> target_key, where |-> cols]

\* The instantiation keyed by the first identity column only.
new_stmt_first_column(call, ec, cols) ==
    Stmt(call, "new", ec, None, None, None, None, SubSeq(cols, 1, 1))

\* compile.py line 146: rai.define(entity_concept.new(**identity_cols))
new_stmt(call, ec, cols) == Stmt(call, "new", ec, None, None, None, None, cols)

dict_keys(cols) == { cols[i][1] : i \in 1..Len(cols) }

Bound(out, e) == [emitted |-> out, err |-> e]

\* The bind loop resolving a Ref's target only after the statement is built
\* and emitted.
bind_field_emits_first(ctx, call, spec, ec, cols, i) ==
    LET attr == spec.fields[i].attr
        field == spec.fields[i].field
    IN  IF field.kind = "key" THEN Bound(<<>>, NoErr)
        ELSE IF field.column = None THEN Bound(<<>>, Raise("ValueError", 3, attr))
        ELSE IF field.kind = "prop"
        THEN IF attr \in dict_keys(cols) THEN Bound(<<>>, NoErr)
             ELSE Bound(<<Stmt(call, "prop", ec, attr, field.column, None, None, cols)>>, NoErr)
        ELSE IF field.kind = "ref"
        THEN IF field.target = None THEN Bound(<<>>, Raise("ValueError", 3, attr))
             ELSE Bound(<<Stmt(call, "ref", ec, attr, field.column, field.target, field.target_key, cols)>>,
                        IF ctx.concepts[field.target].kind = "absent"
                        THEN Raise("AttributeError", 3, attr) ELSE NoErr)
        ELSE Bound(<<>>, Raise("ValueError", 3, attr))

\* compile.py lines 149-168: one turn of the loop, for fields item i; row is
\* the rai.where(...) over identity_cols built at line 147.
bind_field(ctx, call, spec, ec, cols, i) ==
    LET attr == spec.fields[i].attr
        field == spec.fields[i].field
    IN  IF field.kind = "key" THEN Bound(<<>>, NoErr)
        ELSE IF field.column = None THEN Bound(<<>>, Raise("ValueError", 3, attr))
        ELSE IF field.kind = "prop"
        THEN IF attr \in dict_keys(cols) THEN Bound(<<>>, NoErr)
             ELSE Bound(<<Stmt(call, "prop", ec, attr, field.column, None, None, cols)>>, NoErr)
        ELSE IF field.kind = "ref"
        THEN IF field.target = None THEN Bound(<<>>, Raise("ValueError", 3, attr))
             ELSE IF ~hasattr(ctx, field.target) THEN Bound(<<>>, Raise("AttributeError", 3, attr))
             ELSE Bound(<<Stmt(call, "ref", ec, attr, field.column, field.target, field.target_key, cols)>>,
                        NoErr)
        ELSE Bound(<<>>, Raise("ValueError", 3, attr))

\* ------------------------------------------------------- the actions
\* Phase 1 emitting the entity-instantiation statement as soon as the
\* identity is resolved, ahead of the member loop.
CompileIdentityInstantiates(spec) ==
    /\ pc = "idle"
    /\ ncalls < budget
    /\ LET r == resolve_identity(Ctx(concepts, created), spec)
       IN  /\ concepts' = r.ctx.concepts
           /\ created' = r.ctx.created
           /\ entity_concept' = r.entity_concept
           /\ identity_cols' = r.identity_cols
           /\ err' = r.err
           /\ pc' = IF r.err.type = "none" THEN "define" ELSE "idle"
           /\ stmts' = IF r.err.type = "none"
                        THEN Append(stmts, new_stmt(ncalls + 1, r.entity_concept, r.identity_cols))
                        ELSE stmts
    /\ cur' = spec
    /\ idx' = 1
    /\ ncalls' = ncalls + 1
    /\ UNCHANGED <<props, nprops, budget, rows>>
    /\ UNCHANGED taxonomy_vars /\ UNCHANGED arq_vars

\* compile_entity is called with spec: lines 60-118 run.
CompileIdentity(spec) ==
    /\ pc = "idle"
    /\ ncalls < budget
    /\ LET r == resolve_identity(Ctx(concepts, created), spec)
       IN  /\ concepts' = r.ctx.concepts
           /\ created' = r.ctx.created
           /\ entity_concept' = r.entity_concept
           /\ identity_cols' = r.identity_cols
           /\ err' = r.err
           /\ pc' = IF r.err.type = "none" THEN "define" ELSE "idle"
    /\ cur' = spec
    /\ idx' = 1
    /\ ncalls' = ncalls + 1
    /\ UNCHANGED <<props, nprops, stmts, budget, rows>>
    /\ UNCHANGED taxonomy_vars /\ UNCHANGED arq_vars

\* One turn of the loop of lines 121-143.
DefineMember ==
    /\ pc = "define"
    /\ LET r == define_member(Ctx(concepts, created), props, nprops, cur, entity_concept, idx)
       IN  /\ concepts' = r.ctx.concepts
           /\ created' = r.ctx.created
           /\ props' = r.props
           /\ nprops' = r.nprops
           /\ err' = r.err
           /\ pc' = IF r.err.type # "none" THEN "idle"
                    ELSE IF idx = Len(cur.fields) THEN "bind_new" ELSE "define"
           /\ idx' = IF r.err.type = "none" /\ idx < Len(cur.fields) THEN idx + 1 ELSE 1
    /\ UNCHANGED <<stmts, cur, entity_concept, identity_cols, ncalls, budget, rows>>
    /\ UNCHANGED taxonomy_vars /\ UNCHANGED arq_vars
    /\ UNCHANGED plan_vars /\ UNCHANGED race_vars

\* Lines 146-147: the entity-instantiation statement.
BindNew ==
    /\ pc = "bind_new"
    /\ stmts' = Append(stmts, new_stmt(ncalls, entity_concept, identity_cols))
    /\ pc' = "bind"
    /\ idx' = 1
    /\ UNCHANGED <<concepts, created, props, nprops, cur, entity_concept, identity_cols,
                   err, ncalls, budget, rows>>
    /\ UNCHANGED taxonomy_vars /\ UNCHANGED arq_vars
    /\ UNCHANGED plan_vars /\ UNCHANGED race_vars

\* The bind loop taking back the statements of the call when a field fails.
BindFieldRollsBack ==
    /\ pc = "bind"
    /\ LET r == bind_field(Ctx(concepts, created), ncalls, cur, entity_concept, identity_cols, idx)
       IN  /\ stmts' = IF r.err.type = "none" THEN stmts \o r.emitted
                        ELSE SelectSeq(stmts, LAMBDA st : st.call # ncalls)
           /\ err' = r.err
           /\ pc' = IF r.err.type = "none" /\ idx < Len(cur.fields) THEN "bind" ELSE "idle"
           /\ idx' = IF r.err.type = "none" /\ idx < Len(cur.fields) THEN idx + 1 ELSE 1
    /\ UNCHANGED <<concepts, created, props, nprops, cur, entity_concept, identity_cols,
                   ncalls, budget, rows>>
    /\ UNCHANGED taxonomy_vars /\ UNCHANGED arq_vars
    /\ UNCHANGED plan_vars /\ UNCHANGED race_vars

\* One turn of the loop of lines 149-168; the call returns after the last.
BindField ==
    /\ pc = "bind"
    /\ LET r == bind_field(Ctx(concepts, created), ncalls, cur, entity_concept, identity_cols, idx)
       IN  /\ stmts' = stmts \o r.emitted
           /\ err' = r.err
           /\ pc' = IF r.err.type = "none" /\ idx < Len(cur.fields) THEN "bind" ELSE "idle"
           /\ idx' = IF r.err.type = "none" /\ idx < Len(cur.fields) THEN idx + 1 ELSE 1
    /\ UNCHANGED <<concepts, created, props, nprops, cur, entity_concept, identity_cols,
                   ncalls, budget, rows>>
    /\ UNCHANGED taxonomy_vars /\ UNCHANGED arq_vars
    /\ UNCHANGED plan_vars /\ UNCHANGED race_vars

\* ------------------------------------------------------ plan.py
\* Steps a ModelPlan is made of.
MaxSteps == 3

\* EntitySpecStep(spec, table): apply calls compile_entity on the spec.
EntitySpecStep(spec) == [kind |-> "entity", spec |-> spec, reads |-> None]

\* NoSourceStep(fn) for a derivation fn(m) that starts by reading a concept
\* off the Model (define_taxonomy: ts = m.TaxonSpecies.ref()) and then
\* defines its rules.
NoSourceStep(reads) == [kind |-> "derive", spec |-> NoSpec, reads |-> reads]

\* The steps plans are made of: an entity; entities referring to it, to a
\* value concept they do not create, to themselves; one with a field error
\* ahead of its reference; an entity with a composite identity; a derivation
\* over an entity.
PlanSteps ==
    { EntitySpecStep(EntitySpec("E1", <<Item("id", GoodKey), Item("f1", GoodProp)>>, NoIdentifyBy)),
      EntitySpecStep(EntitySpec("E2", <<Item("id", GoodKey), Item("f2", Ref("c2", "E1", "id", TRUE))>>, NoIdentifyBy)),
      EntitySpecStep(EntitySpec("E2", <<Item("id", GoodKey), Item("f2", Prop("c2", "V2", None, FALSE, TRUE))>>,
                                NoIdentifyBy)),
      EntitySpecStep(EntitySpec("E1", <<Item("id", GoodKey), Item("f1", RelRef("c2", "E1", "id"))>>, NoIdentifyBy)),
      EntitySpecStep(EntitySpec("E2", <<Item("id", GoodKey),
                                        Item("f1", Field("prop", None, TRUE, "V1", "Integer", TRUE, None, "id")),
                                        Item("f2", Ref("c2", "E1", "id", TRUE))>>, NoIdentifyBy)),
      EntitySpecStep(EntitySpec("E2", <<Item("name", NameProp), Item("value", ValueProp),
                                        Item("f2", Rel("c2", "V2", "String", TRUE))>>,
                                IdentifyBy(<< <<"name", "V1">>, <<"value", "V2">> >>))),
      NoSourceStep("E2") }

RECURSIVE Plans(_)
Plans(n) == IF n = 0 THEN {<<>>} ELSE Plans(n - 1) \cup { Append(q, st) : q \in Plans(n - 1), st \in PlanSteps }

\* The for loop visiting the steps last to first.
iter_steps_reversed(steps) == [i \in 1..Len(steps) |-> Len(steps) + 1 - i]

\* plan.py line 55: for step in self.steps -- the declared position visited
\* at each turn of the loop.
iter_steps(steps) == [i \in 1..Len(steps) |-> i]

\* A loop that catches what a step raises and goes on.
loop_continues_after_error(e) == TRUE

\* plan.py lines 55-56: nothing catches what step.apply raises, so the loop
\* takes its next turn only when the last step returned.
loop_continues(e) == e.type = "none"

\* One turn of the loop for an EntitySpecStep: compile_entity is entered.
ApplyEntitySpecStep ==
    /\ pc = "idle"
    /\ loop_continues(err)
    /\ step <= Len(plan)
    /\ plan[iter_steps(plan)[step]].kind = "entity"
    /\ CompileIdentity(plan[iter_steps(plan)[step]].spec)
    /\ applied' = Append(applied, iter_steps(plan)[step])
    /\ seen' = Append(seen, concepts)
    /\ step' = step + 1
    /\ plan' = plan
    /\ UNCHANGED race_vars

\* One turn of the loop for a NoSourceStep: the derivation reads its concept
\* (AttributeError when the Model has no such attribute) and defines a rule.
ApplyNoSourceStep ==
    /\ pc = "idle"
    /\ loop_continues(err)
    /\ step <= Len(plan)
    /\ plan[iter_steps(plan)[step]].kind = "derive"
    /\ LET reads == plan[iter_steps(plan)[step]].reads
       IN  IF hasattr(Ctx(concepts, created), reads)
           THEN /\ err' = NoErr
                /\ stmts' = Append(stmts, Stmt(0, "derive", Handle(Ctx(concepts, created), reads),
                                               None, None, None, None, <<>>))
           ELSE /\ err' = Raise("AttributeError", 4, None)
                /\ stmts' = stmts
    /\ cur' = NoSpec
    /\ applied' = Append(applied, iter_steps(plan)[step])
    /\ seen' = Append(seen, concepts)
    /\ step' = step + 1
    /\ plan' = plan
    /\ UNCHANGED race_vars
    /\ UNCHANGED <<concepts, created, props, nprops, pc, idx, entity_concept, identity_cols,
                   ncalls, budget, rows>>
    /\ UNCHANGED taxonomy_vars /\ UNCHANGED arq_vars

\* ------------------------------------- concurrent ensure-concept
Procs == {1, 2}
BaseTypes == {"Integer", "String"}

\* The hasattr test as if it never found the name.
observed_absent_unchecked(ctx, name) == TRUE

\* compile.py line 19: the test whose outcome decides between line 20 and
\* lines 22-27.
observed_absent(ctx, name) == ~hasattr(ctx, name)

\* Under serialization an execution starts only when no other stands between
\* its test and its setattr.
may_enter(p) == serialized => \A q \in Procs \ {p} : rpc[q] # "checked"

\* _ensure_value_concept(m, name, extends, create=True) up to the hasattr
\* test of line 19.
EnsureCheck(p) ==
    /\ rpc[p] = "start"
    /\ may_enter(p)
    /\ rsaw' = [rsaw EXCEPT ![p] = observed_absent(Ctx(concepts, created), rcall[p].name)]
    /\ rpc' = [rpc EXCEPT ![p] = "checked"]
    /\ UNCHANGED <<rcall, serialized>>
    /\ UNCHANGED compiler_vars
    /\ UNCHANGED taxonomy_vars /\ UNCHANGED arq_vars
    /\ UNCHANGED plan_vars

\* The rest of the call: line 20 when the name was found, lines 25-27 (the
\* creation and the setattr) when it was not.
EnsureFinish(p) ==
    /\ rpc[p] = "checked"
    /\ LET ctx == IF rsaw[p]
                  THEN NewConcept(Ctx(concepts, created), rcall[p].name, "value", rcall[p].extends, <<>>)
                  ELSE Ctx(concepts, created)
       IN  /\ concepts' = ctx.concepts
           /\ created' = ctx.created
    /\ rpc' = [rpc EXCEPT ![p] = "done"]
    /\ UNCHANGED <<rsaw, rcall, serialized>>
    /\ UNCHANGED <<props, nprops, stmts, pc, cur, idx, entity_concept, identity_cols, err,
                   ncalls, budget, rows>>
    /\ UNCHANGED taxonomy_vars /\ UNCHANGED arq_vars
    /\ UNCHANGED plan_vars

\* ------------------------------------------------------ source rows
Columns == {"c1", "c2"}
Values == {1, 2}
Row == [Columns -> Values]

RECURSIVE Tables(_)
Tables(n) == IF n = 0 THEN {<<>>} ELSE Tables(n - 1) \cup { Append(t, r) : t \in Tables(n - 1), r \in Row }

\* The instances an entity-instantiation statement denotes over the rows:
\* one per distinct tuple of the values of the columns it is keyed by.
Instances(stmt, table) ==
    { [i \in 1..Len(stmt.where) |-> table[k][stmt.where[i][2]]] : k \in 1..Len(table) }

\* The instance a statement is about for row k: the tuple of the values of the
\* columns its where(...) is keyed by.
RowKey(stmt, table, k) == [i \in 1..Len(stmt.where) |-> table[k][stmt.where[i][2]]]

\* The instances of an entity the emitted statements give over the rows.
TargetInstances(all, table, entity) ==
    UNION { Instances(all[i], table) :
              i \in { j \in 1..Len(all) : all[j].kind = "new" /\ all[j].entity.name = entity } }

\* Instance inst of the entity has value v under attr: as an identity
\* attribute, or by a Prop binding.
HasValue(all, table, entity, inst, attr, v) ==
    \E i \in 1..Len(all) :
        /\ all[i].entity.name = entity
        /\ \/ /\ all[i].kind = "new"
              /\ inst \in Instances(all[i], table)
              /\ \E c \in 1..Len(all[i].where) : all[i].where[c][1] = attr /\ inst[c] = v
           \/ /\ all[i].kind = "prop" /\ all[i].attr = attr
              /\ \E k \in 1..Len(table) : RowKey(all[i], table, k) = inst /\ table[k][all[i].column] = v

\* A Ref bound to the literal column value: the row's entity is linked to
\* the value as if it were the target instance.
RefLinksLiteral(stmt, all, table) ==
    { <<RowKey(stmt, table, k), <<table[k][stmt.column]>> >> : k \in 1..Len(table) }

\* compile.py line 166: rel(m_target.filter_by(**{target_key: source[column]}))
\* under the row's where(...): the row's entity is linked to the instances
\* of the target whose target_key attribute is the row's value of the column.
RefLinks(stmt, all, table) ==
    { <<RowKey(stmt, table, q[1]), q[2]>> :
        q \in { x \in (1..Len(table)) \X TargetInstances(all, table, stmt.target) :
                  HasValue(all, table, stmt.target, x[2], stmt.target_key, table[x[1]][stmt.column]) } }

\* ---------------------------------------------------------------------
\* The Taxon graph (core/taxon.py) and the rank derivation
\* (derived/taxonomy.py)
\* ---------------------------------------------------------------------
\* Taxa of the freely shaped source tables.
NumNodes == 3
\* Largest maxHops the ancestor closure is unrolled to.
MaxHops == 6

\* The fixed rank order, lowest first: the TAXONRANK values define_taxon
\* makes rank views of.
RankList == <<"species", "genus", "family", "order", "class", "phylum", "kingdom">>
RankIdx(rank) == CHOOSE i \in 1..Len(RankList) : RankList[i] = rank
\* The ranks define_taxonomy derives a Taxon property for.
DerivedRanks == { RankList[i] : i \in 2..Len(RankList) }

Nodes == DOMAIN taxon_rows

\* The parent binding with the two ids swapped: t1.id == PARENTNAMEUSAGEID,
\* t2.id == TAXONID.
parent_edges_reversed(table) ==
    { <<t1, t2>> \in (DOMAIN table) \X (DOMAIN table) : t1 # t2 /\ table[t2].parent = t1 }

\* The parent binding without the condition t1.id == TAXONID: every taxon
\* gets every row's parent.
parent_edges_unjoined(table) ==
    { <<t1, t2>> \in (DOMAIN table) \X (DOMAIN table) :
        t1 # t2 /\ \E row \in DOMAIN table : table[row].parent = t2 }

\* The parent binding without the condition t1 != t2.
parent_edges_with_self_loops(table) ==
    { <<t1, t2>> \in (DOMAIN table) \X (DOMAIN table) : table[t1].parent = t2 }

\* core/taxon.py lines 50-58: t1.parent(t2) where t1 != t2, t1.id == TAXONID,
\* t2.id == PARENTNAMEUSAGEID.
parent_edges(table) ==
    { <<t1, t2>> \in (DOMAIN table) \X (DOMAIN table) : t1 # t2 /\ table[t1].parent = t2 }

\* The rank views with the TaxonFamily rule copied from the TaxonGenus one
\* and its TAXONRANK literal left at "genus".
rank_views_copied_literal(table) ==
    [r \in { RankList[i] : i \in 1..Len(RankList) } |->
        { n \in DOMAIN table : table[n].rank = (IF r = "family" THEN "genus" ELSE r) }]

\* core/taxon.py lines 64-83: Taxon<Rank>.new(id=TAXONID) where TAXONRANK == rank.
rank_views(table) ==
    [r \in { RankList[i] : i \in 1..Len(RankList) } |-> { n \in DOMAIN table : table[n].rank = r }]

\* A rule that lost its first join condition (the parent hop out of the
\* source rank): every taxon of rank S relates to whatever rank S+1 reaches.
RECURSIVE chain_unjoined(_, _)
chain_unjoined(S, T) ==
    IF S = T
    THEN { <<n, n>> : n \in rank_view[RankList[T]] }
    ELSE UNION { { <<n, up[2]>> : n \in rank_view[RankList[S]] } :
                 up \in { q \in chain_unjoined(S + 1, T) : q[1] \in rank_view[RankList[S + 1]] } }

\* The rules without the reflexive ones.
RECURSIVE chain_no_reflexive(_, _)
chain_no_reflexive(S, T) ==
    IF S = T
    THEN {}
    ELSE IF S + 1 = T
    THEN { q \in parent : q[1] \in rank_view[RankList[S]] /\ q[2] \in rank_view[RankList[T]] }
    ELSE UNION { { <<e[1], up[2]>> :
                     e \in { q \in parent : q[1] \in rank_view[RankList[S]] /\ q[2] = up[1] } } :
                 up \in { q \in chain_no_reflexive(S + 1, T) : q[1] \in rank_view[RankList[S + 1]] } }

\* Rules that also accept a parent edge leading straight to the target rank.
RECURSIVE chain_direct(_, _)
chain_direct(S, T) ==
    IF S = T
    THEN { <<n, n>> : n \in rank_view[RankList[T]] }
    ELSE { q \in parent : q[1] \in rank_view[RankList[S]] /\ q[2] \in rank_view[RankList[T]] }
         \cup
         UNION { { <<e[1], up[2]>> :
                     e \in { q \in parent : q[1] \in rank_view[RankList[S]] /\ q[2] = up[1] } } :
                 up \in { q \in chain_direct(S + 1, T) : q[1] \in rank_view[RankList[S + 1]] } }

\* derived/taxonomy.py lines 24-133: the rule for source rank S and target
\* rank T (indexes into RankList): the reflexive rule for S = T; else the
\* join of one parent hop, from the view of rank S into the view of rank
\* S+1, with the rule from S+1 to T.
RECURSIVE chain(_, _)
chain(S, T) ==
    IF S = T
    THEN { <<n, n>> : n \in rank_view[RankList[T]] }
    ELSE UNION { { <<e[1], up[2]>> :
                     e \in { q \in parent : q[1] \in rank_view[RankList[S]] /\ q[2] = up[1] } } :
                 up \in { q \in chain(S + 1, T) : q[1] \in rank_view[RankList[S + 1]] } }

\* The rules of a rank with the species-to-genus rule of the genus block
\* left in (a rule copied and not renamed).
strict_rel_stray_genus_rule(rank) ==
    UNION { chain(S, RankIdx(rank)) : S \in 1..RankIdx(rank) } \cup chain(1, 2)

\* derived/taxonomy.py: the rules defining one Taxon.<rank> property.
strict_rel(rank) == UNION { chain(S, RankIdx(rank)) : S \in 1..RankIdx(rank) }

\* Ancestor-closure mode: the pairs exactly k parent edges apart.
RECURSIVE hop(_)
hop(k) ==
    IF k = 0
    THEN { <<n, n>> : n \in Nodes }
    ELSE UNION { { <<below[1], e[2]>> : e \in { q \in parent : q[1] = below[2] } } :
                 below \in hop(k - 1) }

\* Ancestor-closure mode: the reflexive base plus the closure unrolled to h hops.
ancestor_closure(h) == UNION { hop(k) : k \in 0..h }

\* Ancestor-closure mode: the rank relation is the closure filtered by the
\* ancestor's rank.
ancestor_rel(anc, rank) == { pr \in anc : pr[2] \in rank_view[rank] }

\* derived/species.py lines 32-36: Species.new(name=cn) for the canonical
\* name of every taxon of rank species and for every plant's scientific name.
species_instances(table, names, plants) ==
    { names[n] : n \in { t \in DOMAIN table : table[t].rank = "species" } } \cup plants

\* derived/species.py lines 48-53: sp.taxon(txs) where sp.name(cn),
\* txs.canonical_name(cn), txs a TaxonSpecies.
species_taxon_links(sp, names) ==
    { l \in sp \X rank_view["species"] : names[l[2]] = l[1] }

\* The Species rule without its join sp.taxon(tx): every species gets what
\* any TaxonSpecies is related to.
species_rel_unjoined(sp, links, rel) ==
    UNION { { <<x, pr[2]>> : pr \in { q \in rel : q[1] \in rank_view["species"] } } : x \in sp }

\* derived/taxonomy.py lines 135-156: sp.<rank>(a) where sp.taxon(tx),
\* tx.<rank>(a), tx a TaxonSpecies.
species_rel(sp, links, rel) ==
    UNION { { <<l[1], pr[2]>> : pr \in { q \in rel : q[1] = l[2] } } :
            l \in { x \in links : x[2] \in rank_view["species"] } }

\* define_taxon(m, source), after compile_entity(TaxonSpec).
DefineTaxon ==
    /\ tpc = "source"
    /\ parent' = parent_edges(taxon_rows)
    /\ rank_view' = rank_views(taxon_rows)
    /\ tpc' = "bound"
    /\ UNCHANGED <<taxon_rows, strict, ancestor, anc_rank, max_hops>>
    /\ UNCHANGED <<canonical, plant_names, species, species_taxon, species_rank>>
    /\ UNCHANGED compiler_vars
    /\ UNCHANGED plan_vars /\ UNCHANGED race_vars /\ UNCHANGED arq_vars

\* define_species(m): the Species concept and its link to the taxonomy.
DefineSpecies ==
    /\ tpc = "bound"
    /\ species' = species_instances(taxon_rows, canonical, plant_names)
    /\ species_taxon' = species_taxon_links(species', canonical)
    /\ tpc' = "species"
    /\ UNCHANGED <<taxon_rows, parent, rank_view, strict, ancestor, anc_rank, max_hops>>
    /\ UNCHANGED <<canonical, plant_names, species_rank>>
    /\ UNCHANGED compiler_vars
    /\ UNCHANGED plan_vars /\ UNCHANGED race_vars /\ UNCHANGED arq_vars

\* define_taxonomy(m): strict-chain mode, the Taxon relations and the Species
\* relations over them.
DefineTaxonomy ==
    /\ tpc = "species"
    /\ strict' = [r \in DerivedRanks |-> strict_rel(r)]
    /\ species_rank' = [r \in DerivedRanks |-> species_rel(species, species_taxon, strict'[r])]
    /\ tpc' = "strict"
    /\ UNCHANGED <<taxon_rows, parent, rank_view, ancestor, anc_rank, max_hops>>
    /\ UNCHANGED <<canonical, plant_names, species, species_taxon>>
    /\ UNCHANGED compiler_vars
    /\ UNCHANGED plan_vars /\ UNCHANGED race_vars /\ UNCHANGED arq_vars

\* The ancestor-closure mode over the same bound graph, with maxHops = h; its
\* relations are kept apart from the strict ones so that one state holds the
\* results of both modes.
DefineTaxonomyAncestor(h) ==
    /\ tpc = "strict"
    /\ max_hops' = h
    /\ ancestor' = ancestor_closure(h)
    /\ anc_rank' = [r \in DerivedRanks |-> ancestor_rel(ancestor', r)]
    /\ tpc' = "ancestor"
    /\ UNCHANGED <<taxon_rows, parent, rank_view, strict>>
    /\ UNCHANGED <<canonical, plant_names, species, species_taxon, species_rank>>
    /\ UNCHANGED compiler_vars
    /\ UNCHANGED plan_vars /\ UNCHANGED race_vars /\ UNCHANGED arq_vars

\* Source tables of NumNodes taxa of the lower ranks or of no listed rank, any
\* parent id (null, itself, any taxon); ids are interchangeable, so the taxa
\* are taken in rank order.
FreeRanks == {"species", "genus", "family", "order", "subspecies"}
RankKey(rank) == IF rank = "subspecies" THEN 0 ELSE RankIdx(rank)
FreeTables ==
    { t \in [1..NumNodes -> [rank : FreeRanks, parent : 0..NumNodes]] :
        \A i \in 1..(NumNodes - 1) : RankKey(t[i].rank) <= RankKey(t[i + 1].rank) }

\* Source tables with one taxon of every rank, each with no parent, the taxon
\* of the next rank, or the taxon one rank further up (a skipped rank).
LadderTables ==
    { [i \in 1..Len(RankList) |->
          [rank |-> RankList[i],
           parent |-> IF stride[i] = 0 \/ i + stride[i] > Len(RankList) THEN 0 ELSE i + stride[i]]] :
        stride \in [1..Len(RankList) -> {0, 1, 2}] }

TaxonomyIdle ==
    /\ taxon_rows = <<>>
    /\ parent = {}
    /\ rank_view = [r \in { RankList[i] : i \in 1..Len(RankList) } |-> {}]
    /\ strict = [r \in DerivedRanks |-> {}]
    /\ ancestor = {}
    /\ anc_rank = [r \in DerivedRanks |-> {}]
    /\ max_hops = 0
    /\ canonical = <<>>
    /\ plant_names = {}
    /\ species = {}
    /\ species_taxon = {}
    /\ species_rank = [r \in DerivedRanks |-> {}]

\* Taxa of the source tables of the Species derivation.
NumSpeciesTaxa == 4
CanonicalNames == {1, 2}

\* Source tables of species, genus and family taxa in rank order, each with
\* no parent or a taxon further on as parent.
SpeciesTables ==
    { t \in [1..NumSpeciesTaxa -> [rank : {"species", "genus", "family"}, parent : 0..NumSpeciesTaxa]] :
        /\ \A i \in 1..(NumSpeciesTaxa - 1) : RankIdx(t[i].rank) <= RankIdx(t[i + 1].rank)
        /\ \A i \in 1..NumSpeciesTaxa : t[i].parent = 0 \/ t[i].parent > i }

\* Canonical names of a table: the species taxa share the few names; the
\* names of the other taxa, which nothing reads, are left at 0.
NamesOf(t) ==
    { c \in [DOMAIN t -> CanonicalNames \cup {0}] :
        \A n \in DOMAIN t : (c[n] = 0) <=> (t[n].rank # "species") }

CompilerInit ==
    /\ concepts = [n \in Names |-> Absent]
    /\ created = [n \in Names |-> 0]
    /\ props = {}
    /\ nprops = 0
    /\ stmts = <<>>
    /\ pc = "idle"
    /\ cur = NoSpec
    /\ idx = 1
    /\ entity_concept = NoHandle
    /\ identity_cols = <<>>
    /\ err = NoErr
    /\ ncalls = 0

\* ------------------------------------------------------ ARQ_PLAN
\* What a step's function does to the Model, in source order: it sets a name
\* (create), sets it unless it is there (ensure, the compiler's helpers), or
\* reads it (read: getattr, AttributeError when the name is not there).
\* A member is named Owner.member.
ArqOp(op, name) == [op |-> op, name |-> name]

ArqCreates(ns) == [i \in 1..Len(ns) |-> ArqOp("create", ns[i])]

ArqEnsures(ns) == [i \in 1..Len(ns) |-> ArqOp("ensure", ns[i])]

ArqReads(ns) == [i \in 1..Len(ns) |-> ArqOp("read", ns[i])]

\* A step: the positional arguments its apply passes to fn, the positional
\* parameters fn takes, and what fn does.
ArqStep(name, passes, takes, ops) == [name |-> name, passes |-> passes, takes |-> takes, ops |-> ops]

\* plan.py line 28: self.fn(m)
ArqNoSourceStep(name, takes, ops) == ArqStep(name, 1, takes, ops)

\* plan.py line 37: self.fn(m, source(self.table))
ArqTableStep(name, takes, ops) == ArqStep(name, 2, takes, ops)

\* plan.py line 46: compile_entity(m=..., source=..., spec=...)
ArqEntitySpecStep(name, ops) == ArqStep(name, 3, 3, ops)

define_calendar == ArqCreates(<<"Year", "DayOfYear", "CalendarEvent">>)

define_geography ==
    ArqCreates(<<"Hemisphere", "HemisphereNorth", "HemisphereSouth", "HemisphereEast", "HemisphereWest",
              "Latitude", "Longitude", "H3Cell">>)

define_taxon ==
    ArqEnsures(<<"TaxonId", "Taxon", "ScientificName", "CanonicalName", "TaxonRank">>)
    \o ArqCreates(<<"Taxon.parent", "TaxonSpecies", "TaxonGenus", "TaxonFamily", "TaxonOrder",
                 "TaxonClass", "TaxonPhylum", "TaxonKingdom">>)

ObservationSpec ==
    ArqEnsures(<<"ObservationId", "Observation", "EventDateTime">>)
    \o ArqReads(<<"DayOfYear", "Year">>)
    \o ArqEnsures(<<"BasisOfRecord", "CountryCode", "StateProvince">>)
    \o ArqReads(<<"Latitude", "Longitude", "H3Cell", "H3Cell", "H3Cell", "H3Cell", "H3Cell", "Taxon">>)

define_plants ==
    ArqCreates(<<"PlantId", "Plant", "PlantScientificName", "PlantReference",
              "TraitName", "TraitValue", "Trait", "Plant.trait">>)
    \o ArqReads(<<"Taxon">>) \o ArqCreates(<<"Taxon.usda_plant">>)

define_traits ==
    ArqEnsures(<<"TraitName", "TraitValue", "Trait">>) \o ArqReads(<<"Plant">>) \o ArqCreates(<<"Plant.trait">>)

define_species ==
    ArqReads(<<"CanonicalName">>) \o ArqCreates(<<"Species">>)
    \o ArqReads(<<"Taxon", "Species", "Plant", "Trait", "CanonicalName">>)
    \o ArqCreates(<<"Taxon.species", "Species.taxon">>) \o ArqReads(<<"TaxonSpecies">>)
    \o ArqCreates(<<"Plant.species", "Species.plant", "Species.trait">>)
    \o ArqReads(<<"Observation">>) \o ArqCreates(<<"Observation.species">>)

define_solstice_equinox ==
    ArqReads(<<"CalendarEvent">>) \o ArqCreates(<<"Solstice">>)
    \o ArqReads(<<"HemisphereNorth", "HemisphereSouth">>)
    \o ArqReads(<<"CalendarEvent">>) \o ArqCreates(<<"Equinox">>)

define_taxonomy ==
    ArqReads(<<"TaxonSpecies", "TaxonGenus", "TaxonFamily", "TaxonOrder", "TaxonClass", "TaxonPhylum",
            "TaxonKingdom", "Taxon">>)
    \o ArqCreates(<<"Taxon.genus">>) \o ArqReads(<<"Taxon.parent">>)
    \o ArqCreates(<<"Taxon.family", "Taxon.order", "Taxon.class_", "Taxon.phylum", "Taxon.kingdom">>)
    \o ArqReads(<<"Species", "TaxonSpecies">>)
    \o ArqCreates(<<"Species.genus">>) \o ArqReads(<<"Species.taxon">>)
    \o ArqCreates(<<"Species.family", "Species.order", "Species.class_", "Species.phylum", "Species.kingdom">>)

define_derived_observation ==
    ArqReads(<<"Observation">>)
    \o ArqCreates(<<"Observation.hemisphere", "Observation.usda_plant", "Observation.visible_trait">>)

ARQ_PLAN ==
    << ArqNoSourceStep("calendar", 1, define_calendar),
       ArqNoSourceStep("geography", 1, define_geography),
       ArqTableStep("taxon", 2, define_taxon),
       ArqEntitySpecStep("observation", ObservationSpec),
       ArqTableStep("plants", 3, define_plants),
       ArqTableStep("traits", 2, define_traits),
       ArqNoSourceStep("species", 1, define_species),
       ArqTableStep("soleq", 2, define_solstice_equinox),
       ArqNoSourceStep("taxonomy", 1, define_taxonomy),
       ArqNoSourceStep("derived_observation", 1, define_derived_observation) >>

\* The declared plan and the plans that declare two of its steps the other
\* way round.
ArqPlans ==
    {ARQ_PLAN} \cup
    { [k \in 1..Len(ARQ_PLAN) |-> IF k = i THEN ARQ_PLAN[j] ELSE IF k = j THEN ARQ_PLAN[i] ELSE ARQ_PLAN[k]] :
        i \in 1..Len(ARQ_PLAN), j \in 1..Len(ARQ_PLAN) }

ArqResult(model, type, missing) == [model |-> model, type |-> type, missing |-> missing]

\* The body of a step's function from its i-th access on.
RECURSIVE run_ops(_, _, _)
run_ops(model, ops, i) ==
    IF i > Len(ops) THEN ArqResult(model, "none", None)
    ELSE IF ops[i].op = "read"
    THEN IF ops[i].name \in model THEN run_ops(model, ops, i + 1)
         ELSE ArqResult(model, "AttributeError", ops[i].name)
    ELSE run_ops(model \cup {ops[i].name}, ops, i + 1)

\* step.apply(m, src): the call of fn binds the arguments passed to fn's
\* parameters (TypeError when a required one is left over) and runs the body.
call_step(model, st) ==
    IF st.passes # st.takes THEN ArqResult(model, "TypeError", None)
    ELSE run_ops(model, st.ops, 1)

\* One turn of the loop of ModelPlan.apply over the ARQ steps.
ApplyArqStep ==
    /\ arq_err.type = "none"
    /\ arq_step <= Len(arq_plan)
    /\ LET r == call_step(arq_model, arq_plan[arq_step])
       IN  /\ arq_model' = r.model
           /\ arq_made' = Append(arq_made, r.model \ arq_model)
           /\ arq_err' = [type |-> r.type, missing |-> r.missing]
    /\ arq_step' = arq_step + 1
    /\ arq_plan' = arq_plan
    /\ UNCHANGED compiler_vars
    /\ UNCHANGED <<taxon_rows, parent, rank_view, strict, ancestor, anc_rank, max_hops, tpc,
                   canonical, plant_names, species, species_taxon, species_rank>>
    /\ UNCHANGED plan_vars /\ UNCHANGED race_vars

ArqIdle ==
    /\ arq_plan = <<>>
    /\ arq_step = 1
    /\ arq_model = {}
    /\ arq_made = <<>>
    /\ arq_err = [type |-> "none", missing |-> None]

PlanIdle ==
    /\ plan = <<>>
    /\ step = 1
    /\ applied = <<>>
    /\ seen = <<>>

RaceIdle ==
    /\ rpc = [p \in Procs |-> "none"]
    /\ rsaw = [p \in Procs |-> FALSE]
    /\ rcall = [p \in Procs |-> [name |-> None, extends |-> None]]
    /\ serialized = TRUE

vars == <<compiler_vars, taxonomy_vars, plan_vars, race_vars, arq_vars>>

Init ==
    /\ CompilerInit
    /\ budget = MaxCompiles
    /\ rows = <<>>
    /\ TaxonomyIdle
    /\ tpc = "none"
    /\ PlanIdle
    /\ RaceIdle
    /\ ArqIdle

InitRows ==
    /\ CompilerInit
    /\ budget = 1
    /\ rows \in Tables(MaxRows)
    /\ TaxonomyIdle
    /\ tpc = "none"
    /\ PlanIdle
    /\ RaceIdle
    /\ ArqIdle

InitTax ==
    /\ CompilerInit
    /\ budget = 0
    /\ rows = <<>>
    /\ taxon_rows \in FreeTables \cup LadderTables
    /\ parent = {}
    /\ rank_view = [r \in { RankList[i] : i \in 1..Len(RankList) } |-> {}]
    /\ strict = [r \in DerivedRanks |-> {}]
    /\ ancestor = {}
    /\ anc_rank = [r \in DerivedRanks |-> {}]
    /\ max_hops = 0
    /\ tpc = "source"
    /\ canonical = [n \in DOMAIN taxon_rows |-> n]
    /\ plant_names = {}
    /\ species = {}
    /\ species_taxon = {}
    /\ species_rank = [r \in DerivedRanks |-> {}]
    /\ PlanIdle
    /\ RaceIdle
    /\ ArqIdle

Compile ==
    \E spec \in Specs : CompileIdentity(spec) /\ UNCHANGED plan_vars /\ UNCHANGED race_vars

Next ==
    \/ Compile
    \/ DefineMember
    \/ BindNew
    \/ BindField

Spec == Init /\ [][Next]_vars

SpecRows == InitRows /\ [][Next]_vars

\* ModelPlan(steps).apply(m, ...) on a fresh Model.
InitPlan ==
    /\ CompilerInit
    /\ budget = MaxSteps
    /\ rows = <<>>
    /\ TaxonomyIdle
    /\ tpc = "none"
    /\ plan \in Plans(MaxSteps) \ {<<>>}
    /\ step = 1
    /\ applied = <<>>
    /\ seen = <<>>
    /\ RaceIdle
    /\ ArqIdle

NextPlan ==
    \/ ApplyEntitySpecStep
    \/ ApplyNoSourceStep
    \/ DefineMember
    \/ BindNew
    \/ BindField

SpecPlan == InitPlan /\ [][NextPlan]_vars

\* Two executions of _ensure_value_concept on a fresh Model, with and without
\* serialization by the callers.
InitRace ==
    /\ CompilerInit
    /\ budget = 0
    /\ rows = <<>>
    /\ TaxonomyIdle
    /\ tpc = "none"
    /\ PlanIdle
    /\ rpc = [p \in Procs |-> "start"]
    /\ rsaw = [p \in Procs |-> FALSE]
    /\ rcall \in [Procs -> [name : ValueConceptNames, extends : BaseTypes]]
    /\ serialized \in BOOLEAN
    /\ ArqIdle

RaceCheck == \E p \in Procs : EnsureCheck(p)

RaceFinish == \E p \in Procs : EnsureFinish(p)

NextRace ==
    \/ RaceCheck
    \/ RaceFinish

SpecRace == InitRace /\ [][NextRace]_vars

\* define_arq: a plan applied to a fresh Model.
InitArq ==
    /\ CompilerInit
    /\ budget = 0
    /\ rows = <<>>
    /\ TaxonomyIdle
    /\ tpc = "none"
    /\ PlanIdle
    /\ RaceIdle
    /\ arq_plan \in ArqPlans
    /\ arq_step = 1
    /\ arq_model = {}
    /\ arq_made = <<>>
    /\ arq_err = [type |-> "none", missing |-> None]

NextArq == ApplyArqStep

SpecArq == InitArq /\ [][NextArq]_vars

DeriveAncestor ==
    \E h \in 0..MaxHops : DefineTaxonomyAncestor(h)

NextTax ==
    \/ DefineTaxon
    \/ DefineSpecies
    \/ DefineTaxonomy
    \/ DeriveAncestor

SpecTax == InitTax /\ [][NextTax]_vars

\* The taxon, species and taxonomy steps over tables whose species taxa may
\* share a canonical name, with and without plants naming further species.
InitSpecies ==
    /\ CompilerInit
    /\ budget = 0
    /\ rows = <<>>
    /\ taxon_rows \in SpeciesTables
    /\ parent = {}
    /\ rank_view = [r \in { RankList[i] : i \in 1..Len(RankList) } |-> {}]
    /\ strict = [r \in DerivedRanks |-> {}]
    /\ ancestor = {}
    /\ anc_rank = [r \in DerivedRanks |-> {}]
    /\ max_hops = 0
    /\ tpc = "source"
    /\ canonical \in NamesOf(taxon_rows)
    /\ plant_names \in {{}, {2, 3}}
    /\ species = {}
    /\ species_taxon = {}
    /\ species_rank = [r \in DerivedRanks |-> {}]
    /\ PlanIdle
    /\ RaceIdle
    /\ ArqIdle

NextSpecies ==
    \/ DefineTaxon
    \/ DefineSpecies
    \/ DefineTaxonomy

SpecSpecies == InitSpecies /\ [][NextSpecies]_vars


\* ---------------------------------------------------------------------
\* Properties of the entity compiler
\* ---------------------------------------------------------------------
\* The statements the current (or last) compile_entity call has emitted.
CallStmts == SelectSeq(stmts, LAMBDA st : st.call = ncalls)

\* The last call has returned or raised.
Ended == pc = "idle" /\ ncalls > 0

\* The fields of the last spec declared under the attribute the error names.
Offending == { cur.fields[i].field : i \in { j \in 1..Len(cur.fields) : cur.fields[j].attr = err.attr } }

NumKeys(spec) == Cardinality({ i \in 1..Len(spec.fields) : spec.fields[i].field.kind = "key" })

\* C1: after any sequence of compile_entity calls every concept name is bound
\* to exactly one concept: a name is created at most once (by the first spec
\* that declares it) and every later compile reuses that one handle.
C1_OneConceptPerName ==
    \A n \in Names :
        /\ created[n] <= 1
        /\ (concepts[n].kind # "absent") <=> (created[n] = 1)
        /\ concepts[n].kind # "absent" => concepts[n].gen = 1

\* Two specs of different entities that both declare the Key concept V1 have
\* been compiled to the end, and V1 was created once.
C1_Witness ==
    /\ Ended /\ ncalls = 2 /\ err.type = "none"
    /\ NumKeys(cur) = 1 /\ key_items(cur)[1].field.value_concept = "V1"
    /\ \E i \in 1..Len(stmts) :
          /\ stmts[i].call = 1 /\ stmts[i].kind = "new"
          /\ stmts[i].entity.name # cur.entity
          /\ stmts[i].where = << <<"id", "c1">> >>
    /\ created["V1"] = 1

\* C2: compile_entity fails with a ValueError (the spec-validation error) when
\* the spec has a Key field together with a declared __identify_by__, and when
\* it has no Key and no or an empty __identify_by__; identity resolution
\* succeeds only with exactly one Key and no __identify_by__, or with no Key
\* and a non-empty __identify_by__.
C2_IdentityExclusive ==
    ncalls > 0 =>
        LET failed == pc = "idle" /\ err.type = "ValueError" /\ err.phase = 1
            resolved == ~(pc = "idle" /\ err.phase = 1)
        IN  /\ (NumKeys(cur) >= 1 /\ cur.identify_by.declared) => failed
            /\ (NumKeys(cur) = 0 /\ Len(cur.identify_by.items) = 0) => failed
            /\ resolved => \/ NumKeys(cur) = 1 /\ ~cur.identify_by.declared
                           \/ NumKeys(cur) = 0 /\ Len(cur.identify_by.items) > 0

\* A spec with a Key and a non-empty __identify_by__ was compiled and failed.
C2_Witness ==
    /\ Ended /\ NumKeys(cur) = 1 /\ Len(cur.identify_by.items) > 0
    /\ err.type = "ValueError"

\* The compile ended on the AttributeError of a Ref whose target is absent.
RefTargetAbsent ==
    /\ Ended /\ err.type = "AttributeError"
    /\ \E f \in Offending : f.kind = "ref" /\ f.target # None /\ concepts[f.target].kind = "absent"

\* C3 as stated: the error of a Ref to an absent entity is raised before any
\* row-binding statement of that spec is emitted.
C3_NoStatementBeforeRefError ==
    RefTargetAbsent => Len(CallStmts) = 0

\* C3 amended: the error of a Ref to an absent entity is raised before the
\* binding statement of that Ref field is emitted, and after the
\* entity-instantiation statement of the spec has been emitted.
C3_RefErrorBeforeOwnBinding ==
    RefTargetAbsent =>
        /\ \A i \in 1..Len(CallStmts) : CallStmts[i].attr # err.attr
        /\ Len(CallStmts) >= 1 /\ CallStmts[1].kind = "new"

\* A Ref to an absent entity failed after the instantiation statement and the
\* binding of an earlier field went out.
C3_Witness ==
    /\ RefTargetAbsent
    /\ Len(CallStmts) = 2 /\ CallStmts[1].kind = "new" /\ CallStmts[2].kind = "prop"

\* The compile ended on a ValueError.
SpecValidationError == Ended /\ err.type = "ValueError"

\* The error is a missing column of a non-Key field or a missing Ref target.
MissingColumnOrTarget ==
    \E f \in Offending :
        /\ f.kind # "key"
        /\ f.column = None \/ (f.kind = "ref" /\ f.target = None)

\* C4 as stated: every spec-validation error is raised before any binding
\* statement is emitted for the spec.
C4_NoStatementBeforeValueError ==
    SpecValidationError => Len(CallStmts) = 0

\* C4 amended: every spec-validation error is raised before the binding
\* statement of the offending field; it is raised before any statement of the
\* spec unless it is the missing column of a non-Key field or the missing
\* target of a Ref, which are found only while binding.
C4_ValueErrorBeforeOwnBinding ==
    SpecValidationError =>
        /\ \A i \in 1..Len(CallStmts) : CallStmts[i].attr # err.attr
        /\ Len(CallStmts) > 0 => MissingColumnOrTarget /\ CallStmts[1].kind = "new"

\* A Prop without a column failed after the instantiation statement and an
\* earlier field's binding were emitted.
C4_Witness ==
    /\ SpecValidationError
    /\ \E f \in Offending : f.kind = "prop" /\ f.column = None
    /\ Len(CallStmts) = 2

\* The tuple of identity column values of row k, read off the spec.
IdentityTuple(spec, table, k) ==
    [i \in 1..Len(spec.identify_by.items) |->
        table[k][(CHOOSE it \in fields_get(spec, spec.identify_by.items[i][1]) : TRUE).field.column]]

\* The last call compiled a composite-identity spec as far as the
\* instantiation statement, for an entity concept it created.
CompositeBound ==
    /\ ncalls > 0 /\ pc \in {"bind", "idle"}
    /\ Len(cur.identify_by.items) > 0
    /\ Len(CallStmts) > 0

\* C5: an entity compiled with a composite identify_by is keyed by the full
\* identity tuple: its instances are the distinct tuples of identity column
\* values among the source rows, rows sharing a tuple giving one instance.
C5_CompositeIdentityCollapse ==
    CompositeBound =>
        /\ CallStmts[1].kind = "new"
        /\ Instances(CallStmts[1], rows) = { IdentityTuple(cur, rows, k) : k \in 1..Len(rows) }
        /\ Cardinality(Instances(CallStmts[1], rows))
             = Cardinality({ IdentityTuple(cur, rows, k) : k \in 1..Len(rows) })

\* Two rows with the same (name, value) tuple gave one instance.
C5_Witness ==
    /\ CompositeBound
    /\ Len(cur.identify_by.items) = 2
    /\ Len(rows) = 2 /\ IdentityTuple(cur, rows, 1) = IdentityTuple(cur, rows, 2)
    /\ Cardinality(Instances(CallStmts[1], rows)) = 1


\* ---------------------------------------------------------------------
\* Properties of the rank derivation
\* ---------------------------------------------------------------------
RankOf(n) == taxon_rows[n].rank

\* The parent the source row of n names: another taxon of the table, or 0.
SourceParent(n) ==
    IF taxon_rows[n].parent \in Nodes /\ taxon_rows[n].parent # n THEN taxon_rows[n].parent ELSE 0

\* The taxon k parent edges above n, or 0 when the chain ends before.
RECURSIVE Up(_, _)
Up(n, k) ==
    IF n = 0 THEN 0
    ELSE IF k = 0 THEN n
    ELSE Up(SourceParent(n), k - 1)

\* The taxa n is related to by the strict-chain relation of a rank (none for
\* a rank define_taxonomy derives no property for).
StrictAt(n, rank) ==
    IF rank \in DOMAIN strict THEN { a \in Nodes : <<n, a>> \in strict[rank] } ELSE {}

StrictDerived == tpc \in {"strict", "ancestor"}

\* n has rank S and its parent edges lead, one rank at a time with no rank
\* skipped, to a of rank T.
UnbrokenChain(n, a, S, T) ==
    /\ a = Up(n, T - S)
    /\ \A j \in 0..(T - S) : Up(n, j) # 0 /\ RankOf(Up(n, j)) = RankList[S + j]

\* C6: strict-chain derivation: for ranks S below T, a node n of rank S is
\* related to a node a at rank T iff a chain of parent edges leads from n to a
\* through exactly one node of every intermediate rank, in rank order.
C6_StrictChainExact ==
    StrictDerived =>
        \A T \in 2..Len(RankList) : \A S \in 1..(T - 1) : \A n \in Nodes : \A a \in Nodes :
            RankOf(n) = RankList[S] =>
                (<<n, a>> \in strict[RankList[T]] <=> UnbrokenChain(n, a, S, T))

\* A species is related to its kingdom through all seven ranks.
C6_Witness ==
    /\ StrictDerived
    /\ \E pr \in strict["kingdom"] : RankOf(pr[1]) = "species" /\ Up(pr[1], 6) = pr[2]

\* C7 as stated: a node of any rank of the rank list, species included, is
\* related at its own rank to itself and to no other node.
C7_ReflexiveAtEveryRank ==
    StrictDerived =>
        \A n \in Nodes : \A r \in 1..Len(RankList) :
            RankOf(n) = RankList[r] => StrictAt(n, RankList[r]) = {n}

\* C7 amended: a node of any rank from genus to kingdom is related at its own
\* rank to itself and to no other node (the species rank has no derived
\* relation); in a chain species -> genus -> family the family-rank relation
\* of the family node is exactly that node.
C7_ReflexiveAtDerivedRanks ==
    StrictDerived =>
        \A n \in Nodes : \A r \in 2..Len(RankList) :
            RankOf(n) = RankList[r] => StrictAt(n, RankList[r]) = {n}

\* A chain species -> genus -> family whose family node is related, at family
\* rank, to itself alone.
C7_Witness ==
    /\ StrictDerived
    /\ \E n \in Nodes :
          /\ RankOf(n) = "species"
          /\ Up(n, 2) # 0 /\ RankOf(Up(n, 1)) = "genus" /\ RankOf(Up(n, 2)) = "family"
          /\ StrictAt(Up(n, 2), "family") = {Up(n, 2)}

\* n is a species whose parent edge leads straight to a family.
SkipsGenus(n) ==
    /\ RankOf(n) = "species"
    /\ SourceParent(n) # 0
    /\ RankOf(SourceParent(n)) = "family"

\* C8: in strict-chain mode a species whose parent edge points directly to a
\* family gets no genus relation and no family or higher relation either.
C8_SkippedRankNotInferred ==
    StrictDerived =>
        \A n \in Nodes : SkipsGenus(n) => \A r \in DerivedRanks : StrictAt(n, r) = {}

\* Such a species under a family that itself has an order: the species gets
\* neither.
C8_Witness ==
    /\ StrictDerived
    /\ \E n \in Nodes :
          /\ SkipsGenus(n)
          /\ StrictAt(SourceParent(n), "order") # {}
          /\ StrictAt(n, "family") = {} /\ StrictAt(n, "order") = {}

\* C9: in ancestor-closure mode a species whose parent edge points directly
\* to a family is related to that family at family rank, the family being
\* within maxHops (one edge away: maxHops >= 1).
C9_AncestorInfersSkipped ==
    (tpc = "ancestor" /\ max_hops >= 1) =>
        \A n \in Nodes : SkipsGenus(n) => <<n, SourceParent(n)>> \in anc_rank["family"]

\* Such a species, related to the family by the closure and not by the strict
\* rules.
C9_Witness ==
    /\ tpc = "ancestor" /\ max_hops >= 1
    /\ \E n \in Nodes :
          /\ SkipsGenus(n)
          /\ <<n, SourceParent(n)>> \in anc_rank["family"]
          /\ <<n, SourceParent(n)>> \notin strict["family"]

\* The parent edges form a forest with no chain longer than h edges.
ForestOfDepth(h) ==
    /\ \A n \in Nodes : Up(n, Cardinality(Nodes)) = 0
    /\ \A n \in Nodes : Up(n, h + 1) = 0

\* C10: for an acyclic parent forest whose longest chain has at most maxHops
\* edges, the pairs strict-chain mode derives at each rank are a subset of
\* those ancestor-closure mode derives at that rank.
C10_StrictSubsetOfAncestor ==
    (tpc = "ancestor" /\ ForestOfDepth(max_hops)) =>
        \A r \in DerivedRanks : strict[r] \subseteq anc_rank[r]

\* A forest within maxHops where the strict relation of a rank holds a pair
\* from a lower rank and the closure holds more.
C10_Witness ==
    /\ tpc = "ancestor" /\ ForestOfDepth(max_hops)
    /\ \E r \in DerivedRanks :
          /\ \E pr \in strict[r] : pr[1] # pr[2]
          /\ strict[r] # anc_rank[r]
          /\ strict[r] \subseteq anc_rank[r]


\* a is reached from n by following at most h parent edges (n itself by none).
WithinHops(n, a, h) == \E k \in 0..h : Up(n, k) = a

\* C11: ancestor-closure mode: the ancestor set of a node n is exactly the
\* set of nodes reached from n by 0 to maxHops parent edges; n is related to
\* a at rank R iff a is in that set and a's rank is R; an ancestor reached
\* only by more than maxHops edges is left out, and the derivation completes.
C11_AncestorClosureBounded ==
    tpc = "ancestor" =>
        \A n \in Nodes : \A a \in Nodes :
            /\ <<n, a>> \in ancestor <=> WithinHops(n, a, max_hops)
            /\ \A r \in DerivedRanks :
                  <<n, a>> \in anc_rank[r] <=> (WithinHops(n, a, max_hops) /\ RankOf(a) = r)

\* A closure unrolled to two hops or more that relates a species to an
\* ancestor two edges up and leaves out the one just beyond maxHops.
C11_Witness ==
    /\ tpc = "ancestor" /\ max_hops >= 2
    /\ \E n \in Nodes :
          /\ RankOf(n) = "species"
          /\ \E r \in DerivedRanks : <<n, Up(n, 2)>> \in anc_rank[r]
          /\ Up(n, max_hops + 1) # 0
          /\ ~WithinHops(n, Up(n, max_hops + 1), max_hops)
          /\ <<n, Up(n, max_hops + 1)>> \notin ancestor


\* The taxa n is related to by the ancestor-closure relation of a rank.
AncestorAt(n, rank) == { a \in Nodes : <<n, a>> \in anc_rank[rank] }

\* C12: a node with no parent edge has no derived rank relation to any node
\* other than itself, in strict-chain mode and in ancestor-closure mode, and
\* the derivation completes for a graph with such a node.
C12_RootHasOnlyItself ==
    \A n \in Nodes : SourceParent(n) = 0 =>
        /\ StrictDerived => \A r \in DerivedRanks : StrictAt(n, r) \subseteq {n}
        /\ tpc = "ancestor" => \A r \in DerivedRanks : AncestorAt(n, r) \subseteq {n}

\* Both derivations done over a graph with a parentless family that has a
\* genus child related to it: the family is related to itself only.
C12_Witness ==
    /\ tpc = "ancestor" /\ max_hops >= 1
    /\ \E n \in Nodes : \E c \in Nodes :
          /\ SourceParent(n) = 0 /\ RankOf(n) = "family"
          /\ SourceParent(c) = n /\ <<c, n>> \in strict["family"] /\ <<c, n>> \in anc_rank["family"]
          /\ StrictAt(n, "family") = {n} /\ AncestorAt(n, "family") = {n}

\* C13: the bound parent relation has no self-loop: a source row whose parent
\* id is its own id gives no parent edge, and (n, n) is never in the relation.
C13_NoSelfLoop ==
    /\ \A n \in Nodes : <<n, n>> \notin parent
    /\ tpc # "source" =>
          \A n \in Nodes : taxon_rows[n].parent = n => \A a \in Nodes : <<n, a>> \notin parent

\* The graph is bound from a table with a row naming itself as parent and
\* another row naming a different taxon, whose edge is there.
C13_Witness ==
    /\ tpc = "bound"
    /\ \E n \in Nodes : taxon_rows[n].parent = n
    /\ \E c \in Nodes : taxon_rows[c].parent # c /\ <<c, taxon_rows[c].parent>> \in parent


\* ---------------------------------------------------------------------
\* Properties of ModelPlan.apply
\* ---------------------------------------------------------------------
\* The concept names a Model binds.
Present(cs) == { n \in Names : cs[n].kind # "absent" }

\* ModelPlan.apply has returned: every turn of the loop taken, no exception.
PlanReturned == pc = "idle" /\ err.type = "none" /\ step > Len(plan)

\* C14: ModelPlan.apply applies the steps one at a time in the declared
\* order, each once, against one Model: what a step finds in the Model holds
\* every concept an earlier step found or left there, and when apply returns
\* every step has been applied.
C14_DeclaredOrderSharedModel ==
    /\ applied = [i \in 1..Len(applied) |-> i]
    /\ Len(seen) = Len(applied) /\ step = Len(applied) + 1
    /\ \A k \in 1..Len(seen) :
          /\ \A j \in 1..(k - 1) : \A n \in Present(seen[j]) : seen[k][n] = seen[j][n]
          /\ \A n \in Present(seen[k]) : concepts[n] = seen[k][n]
    /\ PlanReturned => Len(applied) = Len(plan)

\* A plan of three steps has returned; its second step refers to the entity
\* E1, which the first step created and the second found in the Model.
C14_Witness ==
    /\ PlanReturned /\ Len(plan) = 3
    /\ plan[2].kind = "entity" /\ plan[2].spec.entity = "E2"
    /\ \E i \in 1..Len(plan[2].spec.fields) : plan[2].spec.fields[i].field.target = "E1"
    /\ "E1" \notin Present(seen[1]) /\ "E1" \in Present(seen[2])
    /\ seen[3]["E1"] = seen[2]["E1"]

\* The concept names a step refers to without creating them: Ref targets,
\* value concepts of Props with create_value_concept false, the concept a
\* derivation reads.
References(st) ==
    IF st.kind = "derive" THEN {st.reads}
    ELSE { st.spec.fields[i].field.target :
             i \in { j \in 1..Len(st.spec.fields) :
                       st.spec.fields[j].field.kind = "ref" /\ st.spec.fields[j].field.target # None } }
         \cup
         { st.spec.fields[i].field.value_concept :
             i \in { j \in 1..Len(st.spec.fields) :
                       /\ st.spec.fields[j].field.kind = "prop"
                       /\ ~st.spec.fields[j].field.create_value_concept
                       /\ st.spec.fields[j].field.value_concept # None } }

\* The concept names a step's own spec declares for creation.
Creates(st) ==
    IF st.kind = "derive" THEN {}
    ELSE {st.spec.entity}
         \cup
         { st.spec.fields[i].field.value_concept :
             i \in { j \in 1..Len(st.spec.fields) :
                       /\ st.spec.fields[j].field.kind \in {"key", "prop"}
                       /\ st.spec.fields[j].field.create_value_concept
                       /\ st.spec.fields[j].field.value_concept # None } }

\* C15 as stated: a step that refers to a concept no earlier step created
\* makes apply fail with a concept-resolution error (AttributeError) raised
\* by that step: no later step is applied, and the step ends on that error.
C15_MissingConceptFailsSameStep ==
    \A i \in 1..Len(applied) :
        References(plan[applied[i]]) \ Present(seen[i]) # {} =>
            /\ i = Len(applied)
            /\ pc = "idle" => err.type = "AttributeError"

\* C15 amended: a step that refers to a concept which neither an earlier step
\* created nor its own spec creates makes apply fail in that step: no later
\* step is applied, and the step ends on an AttributeError, or on the
\* ValueError of a spec-validation error of the same spec found first.
C15_AbsentConceptFailsSameStep ==
    \A i \in 1..Len(applied) :
        References(plan[applied[i]]) \ (Present(seen[i]) \cup Creates(plan[applied[i]])) # {} =>
            /\ i = Len(applied)
            /\ pc = "idle" => err.type \in {"AttributeError", "ValueError"}

\* The first step returned; the second, a derivation over an entity no step
\* has created, raised AttributeError, and the third step is never applied.
C15_Witness ==
    /\ Len(plan) = 3 /\ Len(applied) = 2 /\ pc = "idle"
    /\ plan[2].kind = "derive" /\ plan[2].reads \notin Present(seen[2])
    /\ Present(seen[2]) # {}
    /\ err.type = "AttributeError"


\* The statements emitted by the k-th compile_entity call, the call number
\* taken off.
StmtsOfCall(k) ==
    LET own == SelectSeq(stmts, LAMBDA st : st.call = k)
    IN  [i \in 1..Len(own) |-> [own[i] EXCEPT !.call = 0]]

\* The plan starts by compiling one EntitySpec twice; the second compile has
\* begun.
SecondCompile ==
    /\ Len(applied) >= 2
    /\ plan[1].kind = "entity" /\ plan[2] = plan[1]

\* The second compile has returned or raised.
SecondCompileEnded == SecondCompile /\ (Len(applied) > 2 \/ pc = "idle")

\* C16: compiling the same EntitySpec twice against the same Model creates no
\* concept during the second compile (the concepts stay those the first
\* compile left), and the second compile emits the complete set of binding
\* statements again.
C16_IdempotentRecompile ==
    /\ (SecondCompile /\ Len(applied) = 2) =>
          /\ concepts = seen[2]
          /\ \A n \in Names : created[n] = IF n \in Present(seen[2]) THEN 1 ELSE 0
    /\ SecondCompileEnded =>
          /\ StmtsOfCall(2) = StmtsOfCall(1)
          /\ Len(StmtsOfCall(2)) >= 1 /\ StmtsOfCall(2)[1].kind = "new"
          /\ Len(stmts) >= 2 * Len(StmtsOfCall(1))

\* A spec with a Key and a Prop was compiled twice: three concepts, created
\* once each, and the instantiation and the Prop binding emitted twice.
C16_Witness ==
    /\ SecondCompileEnded /\ Len(applied) = 2 /\ err.type = "none"
    /\ Cardinality(Present(concepts)) = 3
    /\ Len(StmtsOfCall(1)) = 2 /\ Len(stmts) = 4
    /\ StmtsOfCall(2)[2].kind = "prop"


\* C17: compile_entity's effects on the Model are additive only: across any
\* sequence of compiles, successful or failing, no step of a call removes or
\* replaces a concept, or a Property/Relationship attached to an entity
\* concept, that existed before it.
C17_AdditiveOnly ==
    [][ /\ \A n \in Present(concepts) : concepts'[n] = concepts[n]
        /\ props \subseteq props' ]_vars


\* The compile ended on an error that names a field.
FieldError == Ended /\ err.type # "none" /\ err.attr # None

\* Position in the spec of the field the error names.
OffendingIdx == CHOOSE i \in 1..Len(cur.fields) : cur.fields[i].attr = err.attr

\* The attributes of the fields declared before position k that get a binding
\* statement: every non-Key field that is not an identity attribute.
BoundBefore(k) ==
    LET earlier == SelectSeq(SubSeq(cur.fields, 1, k - 1),
                             LAMBDA it : it.field.kind # "key" /\ it.attr \notin dict_keys(identity_cols))
    IN  [i \in 1..Len(earlier) |-> earlier[i].attr]

\* C18: every compile error attributable to a field is raised before the
\* binding statement of that field is emitted, and nothing is rolled back:
\* after a failure in the bind loop the entity-instantiation statement and
\* the binding statements of the earlier fields of the spec are emitted, and
\* the statements of earlier compiles are still there.
C18_ErrorBeforeBindingNoRollback ==
    FieldError =>
        /\ \A i \in 1..Len(CallStmts) : CallStmts[i].attr # err.attr
        /\ err.phase = 3 =>
              /\ Len(CallStmts) = 1 + Len(BoundBefore(OffendingIdx))
              /\ CallStmts[1].kind = "new"
              /\ \A i \in 1..Len(BoundBefore(OffendingIdx)) :
                    CallStmts[i + 1].attr = BoundBefore(OffendingIdx)[i]
        /\ err.phase < 3 => Len(CallStmts) = 0
        /\ ncalls = 2 => \E i \in 1..(Len(stmts) + 1) :
                            /\ \A j \in 1..(i - 1) : stmts[j].call = 1
                            /\ \A j \in i..Len(stmts) : stmts[j].call = 2

\* The second compile failed on its third field, of an unknown kind or with
\* no column, after its instantiation statement and the binding of its
\* second field went out; the statements of the first compile are kept.
C18_Witness ==
    /\ FieldError /\ ncalls = 2 /\ err.phase = 3
    /\ OffendingIdx = 3
    /\ Len(CallStmts) = 2 /\ CallStmts[2].attr = "f1"
    /\ Len(stmts) > Len(CallStmts)


\* The column a spec binds an attribute from.
ColumnOf(spec, attr) == (CHOOSE it \in fields_get(spec, attr) : TRUE).field.column

\* The entity of source row k under a single-Key spec.
EntityOfRow(spec, table, k) == << table[k][key_items(spec)[1].field.column] >>

\* The call compiled a single-Key spec to the end, with Refs to its own entity.
RefCompiled ==
    /\ Ended /\ err.type = "none" /\ NumKeys(cur) = 1
    /\ \E i \in 1..Len(CallStmts) : CallStmts[i].kind = "ref"
    /\ \A i \in 1..Len(CallStmts) : CallStmts[i].kind = "ref" => CallStmts[i].target = cur.entity

\* C19: a Ref field is bound as a join, not as a literal value: for each
\* source row the relationship links the row's entity to the instances of the
\* target entity whose target_key attribute ("id" unless the Ref names
\* another) equals the row's value in the Ref's column, and to nothing when
\* no such instance exists.
C19_RefBoundAsJoin ==
    RefCompiled =>
        \A i \in 1..Len(CallStmts) : CallStmts[i].kind = "ref" =>
            LET st == CallStmts[i]
                field == (CHOOSE it \in fields_get(cur, st.attr) : TRUE).field
            IN  /\ st.column = field.column /\ st.target = field.target /\ st.target_key = field.target_key
                /\ RefLinks(st, stmts, rows) =
                      { <<EntityOfRow(cur, rows, p[1]), EntityOfRow(cur, rows, p[2])>> :
                          p \in { q \in (1..Len(rows)) \X (1..Len(rows)) :
                                    rows[q[2]][ColumnOf(cur, field.target_key)] = rows[q[1]][field.column] } }

\* Two rows, a Ref by a target key other than id: one row is linked to the
\* instances with that value, the other row's value matches no instance and
\* it is linked to nothing.
C19_Witness ==
    /\ RefCompiled /\ Len(rows) = 2
    /\ \E i \in 1..Len(CallStmts) :
          /\ CallStmts[i].kind = "ref" /\ CallStmts[i].target_key = "f1"
          /\ RefLinks(CallStmts[i], stmts, rows) # {}
          /\ \E k \in 1..2 : \A pr \in RefLinks(CallStmts[i], stmts, rows) :
                pr[1] # EntityOfRow(cur, rows, k)


\* Entry i of the spec's __identify_by__ names an attribute that is no
\* declared field, a field that is not a Prop, or a Prop declaring another
\* value-concept name than the entry's.
BadIdentifyByEntry(spec, i) ==
    LET attr == spec.identify_by.items[i][1]
        found == fields_get(spec, attr)
    IN  \/ found = {}
        \/ \E it \in found : it.field.kind # "prop"
        \/ \E it \in found : /\ it.field.kind = "prop"
                             /\ it.field.value_concept # None
                             /\ it.field.value_concept # spec.identify_by.items[i][2]

\* The last call was for a spec with a composite identity, and it has such
\* an entry.
BadCompositeCompiled ==
    /\ ncalls > 0
    /\ NumKeys(cur) = 0 /\ cur.identify_by.declared
    /\ \E i \in 1..Len(cur.identify_by.items) : BadIdentifyByEntry(cur, i)

\* C20: composite identity resolution fails whenever an identify_by entry
\* names an attribute that is not a declared field, a field that is not a
\* Prop, or a Prop whose declared value-concept name is not the entry's: the
\* call ends in phase 1 on an error, at or before that entry, with no entity
\* concept resolved and no statement emitted.
C20_BadIdentifyByFails ==
    BadCompositeCompiled =>
        /\ pc = "idle" /\ err.type # "none" /\ err.phase = 1
        /\ entity_concept = NoHandle
        /\ Len(CallStmts) = 0
        /\ \E i \in 1..Len(cur.identify_by.items) :
              /\ cur.identify_by.items[i][1] = err.attr
              /\ \A j \in 1..(i - 1) : ~BadIdentifyByEntry(cur, j)

\* The second identify_by entry names a Prop declared with another concept:
\* the call failed on it with a ValueError, after the first entry's concept
\* was created.
C20_Witness ==
    /\ BadCompositeCompiled /\ Ended /\ ncalls = 1
    /\ err.type = "ValueError" /\ err.attr = "value"
    /\ \E it \in fields_get(cur, "value") : it.field.kind = "prop" /\ it.field.value_concept = "V2"
    /\ cur.identify_by.items[2] = <<"value", "V1">>
    /\ created["V1"] = 1


\* ---------------------------------------------------------------------
\* Further properties of the entity compiler
\* ---------------------------------------------------------------------
\* What one step does when it resolves the value concept v of a field with
\* base type ext and create flag create.
ValueConceptResolved(v, ext, create) ==
    IF concepts[v].kind # "absent"
    THEN concepts'[v] = concepts[v] /\ created'[v] = created[v] /\ err'.type = "none"
    ELSE IF create /\ ext # None
    THEN /\ concepts'[v].kind = "value" /\ concepts'[v].extends = ext
         /\ created'[v] = created[v] + 1
         /\ err'.type = "none"
    ELSE /\ concepts'[v] = concepts[v] /\ created'[v] = created[v]
         /\ err'.type = IF create THEN "ValueError" ELSE "AttributeError"

\* The step enters compile_entity for a spec whose identity is one Key with a
\* column and a value concept.
KeyStep ==
    /\ pc = "idle" /\ ncalls' = ncalls + 1
    /\ NumKeys(cur') = 1 /\ ~cur'.identify_by.declared
    /\ key_items(cur')[1].field.column # None
    /\ key_items(cur')[1].field.value_concept # None

\* The step is the member-loop turn of a Prop that is no identity attribute
\* and names a value concept.
PropStep ==
    /\ pc = "define"
    /\ cur.fields[idx].field.kind = "prop"
    /\ cur.fields[idx].attr \notin composite_identity_attrs(cur)
    /\ cur.fields[idx].field.value_concept # None

\* C21: value-concept resolution follows the create flag: with
\* create_value_concept true (as a Key has it) the concept is created
\* extending the declared base type when the name is absent, and the compile
\* fails when the name is absent and no base type is given; with
\* create_value_concept false the concept is only looked up, never created,
\* and the compile fails with AttributeError when the name is absent.
C21_CreateFlag ==
    [][ /\ KeyStep =>
              /\ key_items(cur')[1].field.create_value_concept
              /\ ValueConceptResolved(key_items(cur')[1].field.value_concept,
                                      key_items(cur')[1].field.value_extends, TRUE)
        /\ PropStep =>
              ValueConceptResolved(cur.fields[idx].field.value_concept,
                                   cur.fields[idx].field.value_extends,
                                   cur.fields[idx].field.create_value_concept) ]_vars

\* A Prop with create_value_concept false named an absent concept: the
\* compile ended on AttributeError and the concept was never created.
C21_Witness ==
    /\ Ended /\ err.type = "AttributeError" /\ err.phase = 2
    /\ \E f \in Offending :
          /\ f.kind = "prop" /\ ~f.create_value_concept
          /\ concepts[f.value_concept].kind = "absent" /\ created[f.value_concept] = 0
    /\ created["V1"] = 1


\* C22: ensure-concept is a check-then-create that is not atomic: two
\* executions sharing a name, run without a lock, can both find the name
\* absent and both create the concept, the later creation overwriting the
\* earlier handle; that is the only way a name is created twice, and when
\* the executions are serialized a name is created exactly once.
C22_CheckThenCreate ==
    /\ serialized =>
          \A n \in ValueConceptNames :
              /\ created[n] <= 1
              /\ (\E p \in Procs : rcall[p].name = n /\ rpc[p] = "done") => created[n] = 1
    /\ \A n \in ValueConceptNames :
          created[n] >= 2 =>
              /\ ~serialized
              /\ created[n] = 2 /\ concepts[n].gen = 2
              /\ \A p \in Procs : rcall[p].name = n /\ rsaw[p] /\ rpc[p] = "done"

\* Without a lock both executions found the shared name absent and both
\* created it, with different base types: the Model holds the later one.
C22_Witness ==
    /\ ~serialized
    /\ rcall[1].name = rcall[2].name /\ rcall[1].extends # rcall[2].extends
    /\ rsaw[1] /\ rsaw[2] /\ rpc[1] = "done" /\ rpc[2] = "done"
    /\ created[rcall[1].name] = 2
    /\ concepts[rcall[1].name].gen = 2


\* A step of the plan has raised: the exception is out of ModelPlan.apply.
PlanFailed == pc = "idle" /\ err.type # "none" /\ Len(applied) > 0

\* C23: when a step raises, ModelPlan.apply propagates the error: once a
\* step has raised, apply does nothing more (the error stays as raised, no
\* remaining step is applied, the failed step is not retried), and the step
\* that raises leaves what the steps before it put into the Model: their
\* concepts, the attributes they attached, their statements.
C23_ErrorPropagates ==
    [][ /\ ~PlanFailed
        /\ PlanFailed' =>
              /\ \A n \in Present(concepts) : concepts'[n] = concepts[n]
              /\ \A q \in props : \E q2 \in props' : q2.owner = q.owner /\ q2.attr = q.attr
              /\ Len(stmts') >= Len(stmts) /\ SubSeq(stmts', 1, Len(stmts)) = stmts
              /\ \A n \in Present(seen'[Len(seen')]) : concepts'[n] = seen'[Len(seen')][n]
              /\ Len(applied') <= Len(plan')
              /\ \A i \in 1..Len(applied') : \A j \in 1..Len(applied') :
                    applied'[i] = applied'[j] => i = j ]_vars

\* The second of three steps raised a ValueError: the concepts and the
\* statements of the first step are in the Model, the third step was never
\* applied.
C23_Witness ==
    /\ PlanFailed /\ err.type = "ValueError"
    /\ Len(plan) = 3 /\ applied = <<1, 2>> /\ step = 3
    /\ Present(seen[2]) # {} /\ Present(seen[2]) \subseteq Present(concepts)
    /\ Len(StmtsOfCall(1)) > 0


\* ---------------------------------------------------------------------
\* Properties of the Species relations
\* ---------------------------------------------------------------------
\* C24: for each rank R from genus to kingdom a Species s is related to a
\* taxon a at rank R iff some species-rank taxon carrying the name of s is
\* related to a at rank R by the strict-chain relation; the relation is
\* multi-valued and holds no other pair.
C24_SpeciesRelation ==
    tpc = "strict" =>
        \A r \in DerivedRanks :
            /\ \A pr \in species_rank[r] : pr[1] \in species /\ pr[2] \in Nodes
            /\ \A s \in species : \A a \in Nodes :
                  <<s, a>> \in species_rank[r] <=>
                      \E t \in Nodes : /\ RankOf(t) = "species" /\ canonical[t] = s
                                       /\ UnbrokenChain(t, a, 1, RankIdx(r))

\* Two species taxa share a name and have different genera, a third name has
\* its own genus, and a plant names a species with no taxon: the one Species
\* has both genera, the plant's has none.
C24_Witness ==
    /\ tpc = "strict"
    /\ \E s \in species :
          Cardinality({ a \in Nodes : <<s, a>> \in species_rank["genus"] }) = 2
    /\ \E s \in species : \A a \in Nodes : <<s, a>> \notin species_rank["genus"]
    /\ \E r \in DerivedRanks : species_rank[r] # {} /\ species_rank[r] # species \X rank_view[r]


\* ---------------------------------------------------------------------
\* Failure in the phases of compile_entity
\* ---------------------------------------------------------------------
\* The step is a compile_entity call that raises in identity resolution.
Phase1Failed == pc = "idle" /\ ncalls' = ncalls + 1 /\ err'.type # "none"

CompositeShape(spec) ==
    Len(key_items(spec)) = 0 /\ spec.identify_by.declared /\ Len(spec.identify_by.items) > 0

\* C25 as stated: a compile_entity call that fails during identity
\* resolution leaves the SchemaContext exactly as it was before the call.
C25_ContextUntouched ==
    [][Phase1Failed => concepts' = concepts /\ created' = created]_vars

\* C25, amended: a compile_entity call that fails during identity resolution
\* adds no entity concept and changes no concept that existed; with a single
\* Key or a malformed identity shape it leaves the SchemaContext exactly as
\* it was; with a composite identity the value concepts created for the
\* entries before the offending one stay in the SchemaContext.
C25_FailedIdentity ==
    [][Phase1Failed =>
          /\ err'.phase = 1 /\ pc' = "idle" /\ entity_concept' = NoHandle
          /\ \A n \in Names : concepts'[n].kind = "entity" => concepts'[n] = concepts[n]
          /\ \A n \in Present(concepts) : concepts'[n] = concepts[n] /\ created'[n] = created[n]
          /\ ~CompositeShape(cur') => concepts' = concepts /\ created' = created
          /\ CompositeShape(cur') =>
                \A n \in Present(concepts') \ Present(concepts) :
                    /\ concepts'[n].kind = "value" /\ created'[n] = created[n] + 1
                    /\ \E i \in 1..Len(cur'.identify_by.items) :
                          /\ cur'.identify_by.items[i][2] = n
                          /\ \E j \in (i + 1)..Len(cur'.identify_by.items) :
                                cur'.identify_by.items[j][1] = err'.attr ]_vars

\* The first call failed on the second identify_by entry, whose concept was
\* to be looked up and is absent: the first entry's concept stays created,
\* the entity is absent.
C25_Witness ==
    /\ Ended /\ ncalls = 1 /\ err.type = "AttributeError" /\ err.phase = 1
    /\ CompositeShape(cur) /\ err.attr = cur.identify_by.items[2][1]
    /\ concepts[cur.identify_by.items[1][2]].kind = "value"
    /\ created[cur.identify_by.items[1][2]] = 1
    /\ concepts[cur.entity].kind = "absent"


\* The fields of a spec that are neither a Key nor a composite-identity
\* attribute, in declaration order.
BoundFields(spec) ==
    SelectSeq(spec.fields, LAMBDA it : it.field.kind # "key" /\ it.attr \notin composite_identity_attrs(spec))

\* C26: a compile_entity call that fails in identity resolution or member
\* definition has emitted no statement; a call emits its first statement
\* only after every property/relationship of the spec is defined and every
\* Prop value concept is resolved.
C26_BindAfterMembers ==
    /\ pc = "define" => Len(CallStmts) = 0
    /\ (Ended /\ err.type # "none" /\ err.phase \in {1, 2}) => Len(CallStmts) = 0
    /\ (ncalls > 0 /\ Len(CallStmts) > 0) =>
          /\ pc \in {"bind", "idle"}
          /\ \A i \in 1..Len(BoundFields(cur)) :
                LET it == BoundFields(cur)[i]
                IN  /\ \E q \in props : q.owner = entity_concept /\ q.attr = it.attr
                    /\ it.field.kind = "prop" =>
                          /\ it.field.value_concept # None
                          /\ concepts[it.field.value_concept].kind = "value"

\* The second call failed in the member loop on its last field after defining
\* an earlier member: the first call's statements are there, none of its own.
C26_Witness ==
    /\ Ended /\ ncalls = 2 /\ err.type # "none" /\ err.phase = 2
    /\ Len(stmts) > 0 /\ Len(CallStmts) = 0
    /\ Len(cur.fields) = 3 /\ err.attr = cur.fields[3].attr
    /\ \E q \in props : q.owner = entity_concept /\ q.attr = cur.fields[2].attr

\* C27: a successful compile_entity emits one entity-instantiation statement
\* first and after it one binding statement for each field that is neither a
\* Key nor a composite-identity attribute, in declaration order; Keys and
\* composite-identity attributes get none.
C27_OneBindingPerField ==
    (Ended /\ err.type = "none") =>
        /\ Len(CallStmts) = 1 + Len(BoundFields(cur))
        /\ CallStmts[1].kind = "new"
        /\ \A i \in 1..Len(BoundFields(cur)) :
              /\ CallStmts[i + 1].kind = BoundFields(cur)[i].field.kind
              /\ CallStmts[i + 1].attr = BoundFields(cur)[i].attr

\* C27 off the one input that breaks it: specs with no Prop declared under
\* the name of the identity column of the single-Key branch.
C27_ExceptPropNamedId ==
    (Ended /\ err.type = "none"
       /\ \A i \in 1..Len(BoundFields(cur)) :
             BoundFields(cur)[i].attr \notin dict_keys(identity_cols)) =>
        /\ Len(CallStmts) = 1 + Len(BoundFields(cur))
        /\ CallStmts[1].kind = "new"
        /\ \A i \in 1..Len(BoundFields(cur)) :
              /\ CallStmts[i + 1].kind = BoundFields(cur)[i].field.kind
              /\ CallStmts[i + 1].attr = BoundFields(cur)[i].attr


\* ---------------------------------------------------------------------
\* Properties of ARQ_PLAN
\* ---------------------------------------------------------------------
\* The names a step reads that it has not itself set before the read.
ExternalReads(st) ==
    { st.ops[i].name : i \in { k \in 1..Len(st.ops) :
        /\ st.ops[k].op = "read"
        /\ \A j \in 1..(k - 1) : st.ops[j].op = "read" \/ st.ops[j].name # st.ops[k].name } }

\* The names a step's function sets when it runs to its end.
DeclaredCreates(st) == { st.ops[i].name : i \in { k \in 1..Len(st.ops) : st.ops[k].op # "read" } }

ArqEnded == arq_err.type # "none" \/ arq_step > Len(arq_plan)

\* C28: when ARQ_PLAN as declared is applied to an empty SchemaContext,
\* every name a step reads without creating it has been created by a step
\* applied earlier in the plan, and apply raises no concept-resolution error.
C28_ReadsCreatedEarlier ==
    (arq_plan = ARQ_PLAN /\ ArqEnded) =>
        /\ arq_err.type # "AttributeError"
        /\ \A i \in 1..Len(ARQ_PLAN) : \A c \in ExternalReads(ARQ_PLAN[i]) :
              \E j \in 1..(i - 1) : j <= Len(arq_made) /\ c \in arq_made[j]

\* The order of the declarations alone: each name a step reads is among the
\* names the body of an earlier step sets.
ArqDeclaredOrder ==
    arq_plan = ARQ_PLAN =>
        \A i \in 1..Len(ARQ_PLAN) : \A c \in ExternalReads(ARQ_PLAN[i]) :
            \E j \in 1..(i - 1) : c \in DeclaredCreates(ARQ_PLAN[j])

\* Up to the plants step the run goes as declared; it ends there.
ArqEndsAtPlants ==
    (arq_plan = ARQ_PLAN /\ ArqEnded) =>
        /\ arq_err.type = "TypeError" /\ Len(arq_made) = 5 /\ arq_made[5] = {}
        /\ "Plant" \notin arq_model


\* ---------------------------------------------------------------------
\* Base types and functional rank relations
\* ---------------------------------------------------------------------
\* The field declares value concept v with a base type other than the one
\* the existing concept v has.
OtherBase(field) ==
    /\ concepts[field.value_concept].kind = "value"
    /\ field.value_extends # concepts[field.value_concept].extends

\* C29: a value concept keeps the base type it was created with: a compile
\* that declares the name with another base type raises no error on it,
\* creates no second concept and leaves the concept as it was.
C29_BaseTypeFixed ==
    [][ /\ \A v \in Names : concepts[v].kind = "value" =>
              concepts'[v] = concepts[v] /\ created'[v] = created[v]
        /\ (KeyStep /\ OtherBase(key_items(cur')[1].field)) =>
              /\ err'.type = "none"
              /\ concepts'[key_items(cur')[1].field.value_concept].extends
                    # key_items(cur')[1].field.value_extends
        /\ (PropStep /\ OtherBase(cur.fields[idx].field)) =>
              /\ err'.type = "none"
              /\ concepts' = concepts /\ created' = created ]_vars

\* A spec whose Key created V1 extending Integer and whose Prop declares V1
\* extending String compiled to the end: V1 is one concept extending Integer.
C29_Witness ==
    /\ Ended /\ ncalls = 1 /\ err.type = "none"
    /\ \E i \in 1..Len(cur.fields) :
          /\ cur.fields[i].field.kind = "prop"
          /\ cur.fields[i].field.value_concept = "V1"
          /\ cur.fields[i].field.value_extends = "String"
    /\ concepts["V1"].extends = "Integer" /\ created["V1"] = 1
    /\ Len(CallStmts) = 1 + Len(BoundFields(cur))

\* C30: in strict-chain mode, when every node has at most one parent edge and
\* at most one rank, every node has at most one related taxon at each rank:
\* each derived Taxon rank relation is functional.
C30_RankRelationsFunctional ==
    (/\ tpc = "strict"
     /\ \A n \in Nodes : Cardinality({ pr \in parent : pr[1] = n }) <= 1
     /\ \A n \in Nodes : Cardinality({ r \in DOMAIN rank_view : n \in rank_view[r] }) <= 1) =>
        \A r \in DerivedRanks : \A p \in strict[r] : \A q \in strict[r] :
            p[1] = q[1] => p[2] = q[2]

\* A node with a parent edge is related to a taxon at two ranks, one taxon
\* at each.
C30_Witness ==
    /\ tpc = "strict"
    /\ \E n \in Nodes :
          /\ Cardinality({ pr \in parent : pr[1] = n }) = 1
          /\ Cardinality({ r \in DerivedRanks : \E a \in Nodes : <<n, a>> \in strict[r] }) >= 2
          /\ \A r \in DerivedRanks : Cardinality({ a \in Nodes : <<n, a>> \in strict[r] }) <= 1

====
